---- MODULE Spec2Model ----
(***************************************************************************)
(* SerialCOM_Tool: the custom checksummed packet protocol (protocol.py),   *)
(* the Modbus TCP codec (modbus_tcp_protocol.py), the stream reassembly    *)
(* loops of the device and host tabs, and the request/response correlation *)
(* of the custom-protocol host (host_tab.py) and of the Modbus TCP master  *)
(* (modbus_tcp_master_tab.py).                                             *)
(*                                                                         *)
(* Bytes are integers 0..255, byte strings are sequences of bytes.  A      *)
(* Python Optional is a sequence of length 0 (None) or 1 (the value).      *)
(***************************************************************************)
EXTENDS Integers, Sequences, FiniteSets, TLC

VARIABLES
    \* ---- Packet codec harness (protocol.py) ----
    cx_packet,      \* the Packet x handed to to_bytes
    cx_bytes,       \* the byte string under test
    cx_stage,       \* "built" | "encoded" | "raised" | "flipped" | "decoded"
    cx_flip,        \* None, or <<index, bit>> of the flipped bit (0-based)
    cx_result,      \* result of Packet.from_bytes(cx_bytes): None or <<packet>>
    \* ---- Modbus TCP codec harness (modbus_tcp_protocol.py) ----
    mx_call,        \* the builder call: [kind, ...arguments], or a raw frame
    mx_frame,       \* None, or <<the ModbusTCPFrame built>>
    mx_bytes,       \* frame.to_bytes()
    mx_stage,       \* "call" | "built" | "raised" | "encoded" | "decoded" | "parsed"
    mx_decoded,     \* ModbusTCPFrame.from_bytes(mx_bytes)
    mx_parsed,      \* result of the matching ModbusTCPParser method
    \* ---- DeviceTab (device_tab.py) ----
    device_request_buffer,  \* request_buffer
    device_request_count,   \* request_count
    device_handled,         \* the packets passed to handle_request, in order
    \* ---- HostTab (host_tab.py) and its SerialConnection ----
    host_is_connected,      \* serial_connection.is_connected
    serial_data_queue,      \* serial_connection.data_queue: <<type, data>>
    host_data_queue,        \* HostTab.data_queue
    host_message_id,        \* message_id
    host_pending_requests,  \* pending_requests: message id -> request number
    host_timers,            \* armed frame.after timeouts: [req, armed_for]
    host_response_buffer,   \* response_buffer
    host_handled,           \* the packets passed to handle_response, in order
    host_event,             \* the handler that ran last, and what it did
    host_matched,           \* requests logged "RX Response"
    host_timed_out,         \* requests logged "Timeout for Message ID"
    host_requests,          \* number of requests sent so far
    host_rx_pending,        \* requests whose response the host's port read
    host_conn_rx,           \* reads of the host tab's port so far
    gui_rx,                 \* reads of the main serial port so far
    host_poll_tick,         \* parity of the process_responses runs so far
    \* ---- reassembly harness ----
    rs_items,               \* the stream: packets and noise, in order
    rs_fed,                 \* bytes of the stream fed so far
    rs_split,               \* a packet was handed over that spanned two reads
    \* ---- ModbusTCPMasterTab (modbus_tcp_master_tab.py) ----
    master_is_connected,    \* is_connected
    master_transaction_id,  \* transaction_id
    master_pending_requests,\* pending_requests: transaction id -> request number
    master_timers,          \* armed frame.after timeouts: [req, tid]
    master_after_queue,     \* process_response callbacks queued by after(0)
    master_request_count,   \* request_count
    master_response_count,  \* response_count
    master_timeout_count,   \* timeout_count
    master_error_count,     \* error_count
    master_socket,          \* bytes written by the server, not yet received
    master_event,           \* the handler that ran last, and what it did
    master_status,          \* request number -> unsent/pending/matched/...
    master_requests,        \* number of requests sent so far
    master_wire,            \* frames the server wrote on this connection
    master_handled,         \* frames passed to handle_response, in order
    master_server_frames,   \* frames the server wrote so far
    \* ---- decoder harness (protocol.py, modbus_tcp_protocol.py) ----
    dx_kind,        \* "packet" (Packet.from_bytes) | "frame" (ModbusTCPFrame)
    dx_bytes,       \* the byte string handed to from_bytes
    dx_stage,       \* "input" | "decoded" | "parsed" | "raised"
    dx_result,      \* what from_bytes returned: None or <<packet or frame>>
    dx_parsed,      \* what parse_request / parse_response returned
    dx_reads,       \* the 0-based indexes the last call subscripted
    dx_len,         \* the length of the byte string it subscripted
    \* ---- register map harness (RegisterMap, ModbusRegisterMap) ----
    rm_kind,        \* "RegisterMap" | "ModbusRegisterMap"
    rm_map,         \* the map: [size, registers]
    rm_before,      \* the map before the last call
    rm_call,        \* the last call: [op, ...arguments]
    rm_result,      \* what the last call returned
    rm_calls,       \* number of calls made so far
    \* ---- DeviceTab: the device session (device_tab.py) ----
    session_tab,            \* the tab this session works with
    session_ops,            \* number of operations of the session so far
    device_own_address,     \* device_address
    device_register_map,    \* register_map: [size, registers]
    device_simulate_errors, \* simulate_errors
    device_error_type,      \* error_type
    device_response_count,  \* response_count
    device_error_count,     \* error_count
    device_port_open,       \* get_serial_port() is an open port
    device_event,           \* the handler that ran last, and what it did
    \* ---- ModbusTCPSlaveTab: the slave session (modbus_tcp_slave_tab.py) ----
    slave_register_map,     \* register_map: [size, registers]
    slave_simulate_errors,  \* simulate_errors
    slave_error_type,       \* error_type
    slave_request_count,    \* request_count
    slave_response_count,   \* response_count
    slave_error_count,      \* error_count
    slave_event,            \* the handler that ran last, and what it did
    \* ---- ModbusTCPSlaveTab: the server and its threads ----
    srv_is_running,         \* is_running
    srv_is_connected,       \* is_connected
    srv_client_socket,      \* client_socket: 0 (None) or a connection
    srv_server_socket,      \* server_socket: 0 (None) or a listening socket
    srv_connection_count,   \* connection_count
    srv_server_workers,     \* the server_worker threads: [pc, socket]
    srv_client_workers,     \* the client_worker threads: [pc, bytes_received]
    srv_connections,        \* the state of each client connection
    srv_requests,           \* requests the clients sent so far
    \* ---- SerialGUI: the main connection and its read thread ----
    gui_running,            \* running
    gui_is_connected,       \* is_connected
    gui_serial_port,        \* serial_port: "none" | "open"
    gui_read_thread,        \* read_thread: 0 (None) or a thread
    gui_threads,            \* where each read thread is
    gui_event,              \* the step that ran last
    \* ---- HostTab.send_protocol_request (host_tab.py) ----
    host_call,              \* the call: where it is, and what it returned
    \* ---- ModbusTCPMasterTab: the connection and its receive threads ----
    conn_is_connected,      \* is_connected
    conn_client_socket,     \* client_socket: 0 (None) or a socket
    conn_sockets,           \* each socket: "unborn" | "open" | "peer_closed" | "closed"
    conn_workers,           \* the receive_worker threads: [pc, socket]
    conn_after_queue,       \* disconnect_from_server calls given to frame.after
    conn_connects,          \* connections made so far
    \* ---- ModbusTCPSlaveTab.process_modbus_request in the worker thread ----
    slave_call              \* None, or the request whose simulated error
                            \* is about to be generated

codecVars == <<cx_packet, cx_bytes, cx_stage, cx_flip, cx_result>>
mbCodecVars == <<mx_call, mx_frame, mx_bytes, mx_stage, mx_decoded, mx_parsed>>

deviceVars == <<device_request_buffer, device_request_count, device_handled>>
hostVars == <<host_is_connected, serial_data_queue, host_data_queue,
              host_message_id, host_pending_requests, host_timers,
              host_response_buffer, host_handled, host_event, host_matched,
              host_timed_out, host_requests, host_rx_pending, host_conn_rx,
              gui_rx, host_poll_tick>>
reasmVars == <<rs_items, rs_fed, rs_split>>
masterVars == <<master_is_connected, master_transaction_id,
                master_pending_requests, master_timers, master_after_queue,
                master_request_count, master_response_count,
                master_timeout_count, master_error_count, master_socket,
                master_event, master_status, master_requests, master_wire,
                master_handled, master_server_frames>>

decodeVars == <<dx_kind, dx_bytes, dx_stage, dx_result, dx_parsed, dx_reads,
                dx_len>>

regmapVars == <<rm_kind, rm_map, rm_before, rm_call, rm_result, rm_calls>>

sessionVars == <<session_tab, session_ops>>
deviceTabVars == <<device_own_address, device_register_map,
                   device_simulate_errors, device_error_type,
                   device_response_count, device_error_count,
                   device_port_open, device_event>>

slaveTabVars == <<slave_register_map, slave_simulate_errors, slave_error_type,
                  slave_request_count, slave_response_count,
                  slave_error_count, slave_event>>

serverVars == <<srv_is_running, srv_is_connected, srv_client_socket,
                srv_server_socket, srv_connection_count, srv_server_workers,
                srv_client_workers, srv_connections, srv_requests>>

guiVars == <<gui_running, gui_is_connected, gui_serial_port, gui_read_thread,
             gui_threads, gui_event>>

callVars == <<host_call>>

connVars == <<conn_is_connected, conn_client_socket, conn_sockets,
              conn_workers, conn_after_queue, conn_connects>>

slaveCallVars == <<slave_call>>

threadVars == <<serverVars, guiVars, callVars, connVars, slaveCallVars>>

\* The harnesses and tabs added to the first six components.
extraVars == <<decodeVars, regmapVars, sessionVars, deviceTabVars,
               slaveTabVars, threadVars>>

vars == <<codecVars, mbCodecVars, deviceVars, hostVars, reasmVars, masterVars,
          extraVars>>

\* What the actions of one component leave alone: the other components.
firstVars == <<codecVars, mbCodecVars, deviceVars, hostVars, reasmVars,
               masterVars>>
codecOthers == <<mbCodecVars, deviceVars, hostVars, reasmVars, masterVars,
                 extraVars>>
mbCodecOthers == <<codecVars, deviceVars, hostVars, reasmVars, masterVars,
                   extraVars>>
serialOthers == <<codecVars, mbCodecVars, masterVars, extraVars>>
masterOthers == <<codecVars, mbCodecVars, deviceVars, hostVars, reasmVars,
                  extraVars>>
decodeOthers == <<firstVars, regmapVars, sessionVars, deviceTabVars,
                  slaveTabVars, threadVars>>
regmapOthers == <<firstVars, decodeVars, sessionVars, deviceTabVars,
                  slaveTabVars, threadVars>>
deviceTabOthers == <<codecVars, mbCodecVars, hostVars, reasmVars, masterVars,
                     decodeVars, regmapVars, slaveTabVars, threadVars>>
slaveTabOthers == <<firstVars, decodeVars, regmapVars, deviceTabVars,
                    threadVars>>
serverOthers == <<firstVars, decodeVars, regmapVars, sessionVars,
                  deviceTabVars, guiVars, callVars, connVars, slaveCallVars>>
guiOthers == <<codecVars, mbCodecVars, reasmVars, masterVars, decodeVars,
               regmapVars, sessionVars, deviceTabVars, slaveTabVars,
               serverVars, callVars, connVars, slaveCallVars>>
callOthers == <<codecVars, mbCodecVars, deviceVars, reasmVars, masterVars,
                decodeVars, regmapVars, sessionVars, deviceTabVars,
                slaveTabVars, serverVars, guiVars, connVars, slaveCallVars>>
connOthers == <<firstVars, decodeVars, regmapVars, sessionVars, deviceTabVars,
                slaveTabVars, serverVars, guiVars, callVars, slaveCallVars>>

None == <<>>
Some(x) == <<x>>

Min(a, b) == IF a < b THEN a ELSE b

\* Python s[a:b] for 0 <= a (0-based, end exclusive, clamped to len(s)).
PySlice(s, a, b) == SubSeq(s, a + 1, Min(b, Len(s)))

\* All sequences over S of length 0..n.
SeqsUpTo(S, n) == UNION {[1..k -> S] : k \in 0..n}

(***************************************************************************)
(* protocol.py                                                             *)
(***************************************************************************)

START_FLAG == 126          \* 0x7E

\* The 8-bit masks of fletcher16: x & 0xFF.
Mask8Mod255(x) == x % 255
Mask8(x) == x % 256

\* One pass of the loop body, acc = <<sum1, sum2>>:
\*   sum1 = (sum1 + b) & 0xFF; sum2 = (sum2 + sum1) & 0xFF
fletcher16_step(acc, b) ==
    LET sum1 == Mask8(acc[1] + b)
    IN  <<sum1, Mask8(acc[2] + sum1)>>

\* for b in data[lo..hi], from the sums acc: the loop over a range is the
\* loop over its first half followed by the loop over its second half, the
\* bytes staying in order. (The membership test only makes TLC finish the
\* first half before it starts the second, which keeps its stack shallow.)
RECURSIVE fletcher16_loop(_, _, _, _)
fletcher16_loop(data, lo, hi, acc) ==
    IF lo > hi THEN acc
    ELSE IF lo = hi THEN fletcher16_step(acc, data[lo])
    ELSE LET mid == (lo + hi) \div 2
             first == fletcher16_loop(data, lo, mid, acc)
         IN  IF first \in Nat \X Nat
             THEN fletcher16_loop(data, mid + 1, hi, first)
             ELSE first

\* return (sum2 << 8) | sum1
fletcher16(data) ==
    LET acc == fletcher16_loop(data, 1, Len(data), <<0, 0>>)
    IN  acc[2] * 256 + acc[1]

\* bytearray.append(v) raises ValueError unless 0 <= v < 256.
IsByte(v) == v \in 0..255

\* Packet.to_bytes raises when a header field or len(data)+1 is no byte.
to_bytes_raises(p) ==
    \/ ~IsByte(p.device_address)
    \/ ~IsByte(p.message_id)
    \/ ~IsByte(Len(p.data) + 1)
    \/ ~IsByte(p.function_code)

\* The packet without its checksum, as to_bytes builds it.
to_bytes_body(p) ==
    <<START_FLAG, p.device_address, p.message_id, Len(p.data) + 1,
      p.function_code>> \o p.data

\* The two checksum bytes to_bytes appends: high byte, then low byte.
checksum_bytes_low_first(c) == <<Mask8(c), Mask8(c \div 256)>>
checksum_bytes(c) == <<Mask8(c \div 256), Mask8(c)>>

to_bytes(p) ==
    LET packet == to_bytes_body(p)
    IN  packet \o checksum_bytes(fletcher16(packet))

\* payload = data[5:4+length]
from_bytes_payload_long(data, length) == PySlice(data, 5, 5 + length)
from_bytes_payload(data, length) == PySlice(data, 5, 4 + length)

from_bytes(data) ==
    IF Len(data) < 7 THEN None
    ELSE IF data[1] # START_FLAG THEN None
    ELSE LET length == data[4]
         IN  IF Len(data) < 6 + length THEN None
             ELSE LET received_checksum ==
                          data[4 + length + 1] * 256 + data[5 + length + 1]
                      calculated_checksum ==
                          fletcher16(PySlice(data, 0, 4 + length))
                  IN  IF received_checksum # calculated_checksum THEN None
                      ELSE Some([device_address |-> data[2],
                                 message_id     |-> data[3],
                                 function_code  |-> data[5],
                                 data           |-> from_bytes_payload(data, length),
                                 checksum       |-> Some(received_checksum)])

Packet(addr, msg, func, data) ==
    [device_address |-> addr, message_id |-> msg, function_code |-> func,
     data |-> data, checksum |-> None]

(***************************************************************************)
(* The codec harness: a packet is encoded, the encoding is decoded as it   *)
(* is or with one bit flipped.                                             *)
(***************************************************************************)

MaxDataLen == 2
MaxPayload == 254          \* longest data whose length byte len(data)+1 fits

CodecAddrs == {0, 1, 247}
CodecMsgIds == {16, 255}
CodecFuncs == {1, 3, 65, 132}                \* 0x01 0x03 0x41 0x84
CodecDataBytes == {0, 18, 52, 145, 173}      \* 0x00 0x12 0x34 0x91 0xAD

LongData(n) == [i \in 1..n |-> (7 * i) % 256]

CodecData == SeqsUpTo(CodecDataBytes, MaxDataLen)

\* Short packets over a grid of field values, the longest packet to_bytes
\* can encode, and one packet that is one byte too long.
CodecPackets ==
    {Packet(a, m, f, d) : a \in CodecAddrs, m \in CodecMsgIds,
                          f \in CodecFuncs, d \in CodecData}
        \cup {Packet(1, 16, 1, LongData(MaxPayload)),
              Packet(1, 16, 1, LongData(MaxPayload + 1))}

\* A packet the protocol calls valid (Packet docstring, length byte).
ValidPacket(p) ==
    /\ p.device_address \in 0..247
    /\ p.message_id \in 0..255
    /\ p.function_code \in 0..255
    /\ Len(p.data) <= MaxPayload

CodecInit ==
    /\ cx_packet \in CodecPackets
    /\ cx_bytes = <<>>
    /\ cx_stage = "built"
    /\ cx_flip = None
    /\ cx_result = None

\* One bit of one byte inverted: b ^ (1 << k).
FlipBitOf(b, k) ==
    IF (b \div (2 ^ k)) % 2 = 1 THEN b - 2 ^ k ELSE b + 2 ^ k

CodecToBytes ==
    /\ cx_stage = "built"
    /\ IF to_bytes_raises(cx_packet)
       THEN /\ cx_stage' = "raised"
            /\ UNCHANGED cx_bytes
       ELSE /\ cx_stage' = "encoded"
            /\ cx_bytes' = to_bytes(cx_packet)
    /\ UNCHANGED <<cx_packet, cx_flip, cx_result, codecOthers>>

CodecFlipBit ==
    /\ cx_stage = "encoded"
    /\ \E i \in 1..Len(cx_bytes), k \in 0..7 :
          /\ cx_bytes' = [cx_bytes EXCEPT ![i] = FlipBitOf(@, k)]
          /\ cx_flip' = Some(<<i - 1, k>>)
    /\ cx_stage' = "flipped"
    /\ UNCHANGED <<cx_packet, cx_result, codecOthers>>

CodecFromBytes ==
    /\ cx_stage \in {"encoded", "flipped"}
    /\ cx_result' = from_bytes(cx_bytes)
    /\ cx_stage' = "decoded"
    /\ UNCHANGED <<cx_packet, cx_bytes, cx_flip, codecOthers>>

(***************************************************************************)
(* modbus_tcp_protocol.py                                                  *)
(***************************************************************************)

READ_HOLDING_REGISTERS == 3        \* 0x03
WRITE_MULTIPLE_REGISTERS == 16     \* 0x10

IsU16(v) == v \in 0..65535

\* struct.pack('>H', v): two bytes, high byte first.
pack_H_low_first(v) == <<v % 256, v \div 256>>
pack_H(v) == <<v \div 256, v % 256>>

\* struct.unpack('>H', b) of a two-byte string.
unpack_H(b) == b[1] * 256 + b[2]

\* for value in values: data += struct.pack('>H', value)
pack_values(values) ==
    [j \in 1..(2 * Len(values)) |-> pack_H(values[(j + 1) \div 2])[2 - (j % 2)]]

\* x | 0x80 and x & 0x80, x & 0x7F for a byte x.
HasErrorBit(x) == (x \div 128) % 2 = 1
SetErrorBit(x) == IF HasErrorBit(x) THEN x ELSE x + 128
ClearErrorBit(x) == IF HasErrorBit(x) THEN x - 128 ELSE x

ModbusTCPFrame(tid, pid, length, unit, func, data) ==
    [transaction_id |-> tid, protocol_id |-> pid, length |-> length,
     unit_id |-> unit, function_code |-> func, data |-> data]

\* ModbusTCPFrame.to_bytes raises struct.error when a header field is out
\* of range.
frame_to_bytes_raises(f) ==
    \/ ~IsU16(f.transaction_id)
    \/ ~IsU16(f.protocol_id)
    \/ ~IsU16(f.length)
    \/ ~IsByte(f.unit_id)
    \/ ~IsByte(f.function_code)

frame_to_bytes(f) ==
    LET mbap_header == pack_H(f.transaction_id) \o pack_H(f.protocol_id)
                         \o pack_H(f.length) \o <<f.unit_id>>
        pdu == <<f.function_code>> \o f.data
    IN  mbap_header \o pdu

\* pdu_data = data[8:6+length]
frame_pdu_data_short(data, length) == PySlice(data, 8, 5 + length)
frame_pdu_data(data, length) == PySlice(data, 8, 6 + length)

frame_from_bytes(data) ==
    IF Len(data) < 8 THEN None
    ELSE LET transaction_id == unpack_H(PySlice(data, 0, 2))
             protocol_id == unpack_H(PySlice(data, 2, 4))
             length == unpack_H(PySlice(data, 4, 6))
             unit_id == data[7]
         IN  IF protocol_id # 0 THEN None
             ELSE IF Len(data) < 6 + length THEN None
             ELSE Some(ModbusTCPFrame(transaction_id, protocol_id, length,
                                      unit_id, data[8],
                                      frame_pdu_data(data, length)))

\* ---- ModbusTCPBuilder ----

read_holding_registers_request(tid, unit, start, count) ==
    LET data == pack_H(start) \o pack_H(count)
    IN  ModbusTCPFrame(tid, 0, Len(data) + 2, unit, READ_HOLDING_REGISTERS, data)

\* The same frame with a length field that counts the function code only.
read_holding_registers_response_without_unit(tid, unit, values) ==
    LET byte_count == Len(values) * 2
        data == <<byte_count>> \o pack_values(values)
    IN  ModbusTCPFrame(tid, 0, Len(data) + 1, unit, READ_HOLDING_REGISTERS, data)

read_holding_registers_response(tid, unit, values) ==
    LET byte_count == Len(values) * 2
        data == <<byte_count>> \o pack_values(values)
    IN  ModbusTCPFrame(tid, 0, Len(data) + 2, unit, READ_HOLDING_REGISTERS, data)

write_multiple_registers_request(tid, unit, start, values) ==
    LET count == Len(values)
        byte_count == count * 2
        data == pack_H(start) \o pack_H(count) \o <<byte_count>>
                  \o pack_values(values)
    IN  ModbusTCPFrame(tid, 0, Len(data) + 2, unit, WRITE_MULTIPLE_REGISTERS, data)

write_multiple_registers_response(tid, unit, start, count) ==
    LET data == pack_H(start) \o pack_H(count)
    IN  ModbusTCPFrame(tid, 0, Len(data) + 2, unit, WRITE_MULTIPLE_REGISTERS, data)

exception_response(tid, unit, function_code, exception_code) ==
    LET error_function == SetErrorBit(function_code)
        data == <<exception_code>>
    IN  ModbusTCPFrame(tid, 0, Len(data) + 2, unit, error_function, data)

\* ---- ModbusTCPParser ----

\* for i in range(0, byte_count, 2): struct.unpack('>H', data[off+i:off+2+i])
\* None when one of the slices is short (struct.error).
parse_values(data, off, byte_count) ==
    LET n == (byte_count + 1) \div 2
    IN  IF \E k \in 1..n : Len(PySlice(data, off + 2 * (k - 1), off + 2 * k)) < 2
        THEN None
        ELSE Some([k \in 1..n |->
                     unpack_H(PySlice(data, off + 2 * (k - 1), off + 2 * k))])

parse_read_holding_registers_request(frame) ==
    IF frame.function_code # READ_HOLDING_REGISTERS THEN None
    ELSE IF Len(frame.data) < 4 THEN None
    ELSE Some([function |-> "read_holding_registers",
               start_address |-> unpack_H(PySlice(frame.data, 0, 2)),
               count |-> unpack_H(PySlice(frame.data, 2, 4))])

parse_read_holding_registers_response(frame) ==
    IF frame.function_code # READ_HOLDING_REGISTERS THEN None
    ELSE IF Len(frame.data) < 1 THEN None
    ELSE LET byte_count == frame.data[1]
         IN  IF Len(frame.data) < 1 + byte_count THEN None
             ELSE LET values == parse_values(frame.data, 1, byte_count)
                  IN  IF values = None THEN None
                      ELSE Some([function |-> "read_holding_registers_response",
                                 values |-> values[1]])

parse_write_multiple_registers_request(frame) ==
    IF frame.function_code # WRITE_MULTIPLE_REGISTERS THEN None
    ELSE IF Len(frame.data) < 5 THEN None
    ELSE LET byte_count == frame.data[5]
         IN  IF Len(frame.data) < 5 + byte_count THEN None
             ELSE LET values == parse_values(frame.data, 5, byte_count)
                  IN  IF values = None THEN None
                      ELSE Some([function |-> "write_multiple_registers",
                                 start_address |-> unpack_H(PySlice(frame.data, 0, 2)),
                                 count |-> unpack_H(PySlice(frame.data, 2, 4)),
                                 values |-> values[1]])

parse_write_multiple_registers_response(frame) ==
    IF frame.function_code # WRITE_MULTIPLE_REGISTERS THEN None
    ELSE IF Len(frame.data) < 4 THEN None
    ELSE Some([function |-> "write_multiple_registers_response",
               start_address |-> unpack_H(PySlice(frame.data, 0, 2)),
               count |-> unpack_H(PySlice(frame.data, 2, 4))])

parse_exception_response(frame) ==
    IF ~HasErrorBit(frame.function_code) THEN None
    ELSE IF Len(frame.data) < 1 THEN None
    ELSE Some([function |-> "exception_response",
               original_function |-> ClearErrorBit(frame.function_code),
               exception_code |-> frame.data[1]])

(***************************************************************************)
(* The Modbus codec harness: a frame is built by a ModbusTCPBuilder method *)
(* (or given as it is), encoded, decoded, and handed to the builder's      *)
(* matching ModbusTCPParser method.                                        *)
(***************************************************************************)

MaxValues == 2
ReadLimit == 125           \* most registers of one read response
WriteLimit == 123          \* most registers of one write request

MxTids == {1, 258, 65535}                  \* 0x0001 0x0102 0xFFFF
MxUnits == {1, 255}
MxStarts == {0, 26, 65535}                 \* 0x0000 0x001A 0xFFFF
MxCounts == {0, 1, 10, 125}
MxRegValues == {0, 255, 256, 65535}
MxFuncs == {1, 3, 16, 131}                 \* 0x01 0x03 0x10 0x83
MxExceptions == {1, 2, 3, 4}
MxRawFuncs == {0, 3, 16, 255}
MxRawBytes == {0, 1, 255}

ManyValues(n) == [i \in 1..n |-> (257 * i) % 65536]

MxValueLists ==
    SeqsUpTo(MxRegValues, MaxValues) \cup {ManyValues(WriteLimit), <<65536>>}

MxCalls ==
    {[kind |-> "read_request", tid |-> t, unit |-> u, start |-> a, count |-> c] :
        t \in MxTids, u \in MxUnits, a \in MxStarts, c \in MxCounts}
    \cup
    {[kind |-> "read_response", tid |-> t, unit |-> u, values |-> v] :
        t \in MxTids, u \in MxUnits,
        v \in MxValueLists \cup {ManyValues(ReadLimit)}}
    \cup
    {[kind |-> "write_request", tid |-> t, unit |-> u, start |-> a, values |-> v] :
        t \in MxTids, u \in MxUnits, a \in MxStarts, v \in MxValueLists}
    \cup
    {[kind |-> "write_response", tid |-> t, unit |-> u, start |-> a, count |-> c] :
        t \in MxTids, u \in MxUnits, a \in MxStarts, c \in MxCounts}
    \cup
    {[kind |-> "exception", tid |-> t, unit |-> u, function_code |-> f,
      exception_code |-> e] :
        t \in MxTids, u \in MxUnits, f \in MxFuncs, e \in MxExceptions}
    \cup
    {[kind |-> "raw",
      frame |-> ModbusTCPFrame(t, 0, Len(d) + 2, u, f, d)] :
        t \in MxTids, u \in MxUnits, f \in MxRawFuncs,
        d \in SeqsUpTo(MxRawBytes, MaxValues)}

\* struct.pack raises struct.error for an argument out of range.
builder_raises(call) ==
    CASE call.kind = "read_request" -> ~IsU16(call.start) \/ ~IsU16(call.count)
      [] call.kind = "read_response" ->
            \/ ~IsByte(Len(call.values) * 2)
            \/ \E i \in 1..Len(call.values) : ~IsU16(call.values[i])
      [] call.kind = "write_request" ->
            \/ ~IsU16(call.start)
            \/ ~IsByte(Len(call.values) * 2)
            \/ \E i \in 1..Len(call.values) : ~IsU16(call.values[i])
      [] call.kind = "write_response" -> ~IsU16(call.start) \/ ~IsU16(call.count)
      [] call.kind = "exception" -> ~IsByte(call.exception_code)
      [] OTHER -> FALSE

builder_frame(call) ==
    CASE call.kind = "read_request" ->
            read_holding_registers_request(call.tid, call.unit, call.start, call.count)
      [] call.kind = "read_response" ->
            read_holding_registers_response(call.tid, call.unit, call.values)
      [] call.kind = "write_request" ->
            write_multiple_registers_request(call.tid, call.unit, call.start, call.values)
      [] call.kind = "write_response" ->
            write_multiple_registers_response(call.tid, call.unit, call.start, call.count)
      [] call.kind = "exception" ->
            exception_response(call.tid, call.unit, call.function_code,
                               call.exception_code)
      [] OTHER -> call.frame

matching_parser(call, frame) ==
    CASE call.kind = "read_request" -> parse_read_holding_registers_request(frame)
      [] call.kind = "read_response" -> parse_read_holding_registers_response(frame)
      [] call.kind = "write_request" -> parse_write_multiple_registers_request(frame)
      [] call.kind = "write_response" -> parse_write_multiple_registers_response(frame)
      [] OTHER -> parse_exception_response(frame)

MxInit ==
    /\ mx_call \in MxCalls
    /\ mx_frame = None
    /\ mx_bytes = <<>>
    /\ mx_stage = "call"
    /\ mx_decoded = None
    /\ mx_parsed = None

MxBuild ==
    /\ mx_stage = "call"
    /\ IF builder_raises(mx_call)
       THEN mx_stage' = "raised" /\ UNCHANGED mx_frame
       ELSE mx_stage' = "built" /\ mx_frame' = Some(builder_frame(mx_call))
    /\ UNCHANGED <<mx_call, mx_bytes, mx_decoded, mx_parsed, mbCodecOthers>>

MxToBytes ==
    /\ mx_stage = "built"
    /\ IF frame_to_bytes_raises(mx_frame[1])
       THEN mx_stage' = "raised" /\ UNCHANGED mx_bytes
       ELSE mx_stage' = "encoded" /\ mx_bytes' = frame_to_bytes(mx_frame[1])
    /\ UNCHANGED <<mx_call, mx_frame, mx_decoded, mx_parsed, mbCodecOthers>>

MxFromBytes ==
    /\ mx_stage = "encoded"
    /\ mx_decoded' = frame_from_bytes(mx_bytes)
    /\ mx_stage' = "decoded"
    /\ UNCHANGED <<mx_call, mx_frame, mx_bytes, mx_parsed, mbCodecOthers>>

MxParse ==
    /\ mx_stage = "decoded"
    /\ mx_call.kind # "raw"
    /\ mx_decoded # None
    /\ mx_parsed' = matching_parser(mx_call, mx_decoded[1])
    /\ mx_stage' = "parsed"
    /\ UNCHANGED <<mx_call, mx_frame, mx_bytes, mx_decoded, mbCodecOthers>>

(***************************************************************************)
(* protocol.py: the request and response packets the tabs exchange         *)
(***************************************************************************)

READ_SINGLE == 1           \* FunctionCode.READ_SINGLE       0x01
WRITE_SINGLE == 2          \* FunctionCode.WRITE_SINGLE      0x02
READ_MULTIPLE == 3         \* FunctionCode.READ_MULTIPLE     0x03
WRITE_MULTIPLE == 4        \* FunctionCode.WRITE_MULTIPLE    0x04
READ_SINGLE_RESP == 65     \* FunctionCode.READ_SINGLE_RESP  0x41

\* value.to_bytes(2, byteorder='big') for 0 <= value < 65536
encode_word(value) == <<value \div 256, value % 256>>

\* int.from_bytes(data[offset:offset+2], byteorder='big'); a slice that runs
\* off the end of data is shorter, and the empty slice decodes to 0.
decode_word(data, offset) ==
    LET word == PySlice(data, offset, offset + 2)
    IN  IF Len(word) = 0 THEN 0
        ELSE IF Len(word) = 1 THEN word[1]
        ELSE word[1] * 256 + word[2]

read_single_request(device_addr, msg_id, reg_addr) ==
    Packet(device_addr, msg_id, READ_SINGLE, encode_word(reg_addr))

read_single_response(device_addr, msg_id, reg_addr, reg_value) ==
    Packet(device_addr, msg_id, READ_SINGLE_RESP,
           encode_word(reg_addr) \o encode_word(reg_value))

\* PacketParser.parse_request: None, or the parsed fields.
parse_request(packet) ==
    LET result == [device_address |-> packet.device_address,
                   message_id     |-> packet.message_id,
                   function_code  |-> packet.function_code]
        d == packet.data
    IN  IF packet.function_code = READ_SINGLE /\ Len(d) >= 2
        THEN Some(result @@ [register_address |-> decode_word(d, 0)])
        ELSE IF packet.function_code = WRITE_SINGLE /\ Len(d) >= 4
        THEN Some(result @@ [register_address |-> decode_word(d, 0),
                             register_value   |-> decode_word(d, 2)])
        ELSE IF packet.function_code = READ_MULTIPLE /\ Len(d) >= 3
        THEN Some(result @@ [register_address |-> decode_word(d, 0),
                             count            |-> d[3]])
        ELSE IF packet.function_code = WRITE_MULTIPLE /\ Len(d) >= 3
        THEN LET offsets == {3 + i * 2 : i \in 0..(d[3] - 1)}
                 kept == Cardinality({o \in offsets : o + 1 < Len(d)})
             IN  Some(result @@ [register_address |-> decode_word(d, 0),
                                 count            |-> d[3],
                                 values |-> [i \in 1..kept |->
                                     decode_word(d, 3 + (i - 1) * 2)]])
        ELSE None

(***************************************************************************)
(* device_tab.py: the request buffer of the device tab                     *)
(***************************************************************************)

DEVICE_ADDRESS == 1        \* DeviceTab.device_address after construction

\* bytearray.find(b): the 0-based index of the first b, or -1.
find(buf, b) ==
    IF \E i \in 1..Len(buf) : buf[i] = b
    THEN (CHOOSE i \in 1..Len(buf) :
              buf[i] = b /\ \A j \in 1..(i - 1) : buf[j] # b) - 1
    ELSE -1

\* total_length = 6 + msg_length  (header + data + checksum)
total_length_without_checksum(msg_length) == 4 + msg_length
total_length_with_second_header(msg_length) == 12 + msg_length
total_length(msg_length) == 6 + msg_length

\* DeviceTab.process_buffer: the while loop over request_buffer. The result
\* is the buffer the loop leaves and the packets it passed to handle_request,
\* in order.
RECURSIVE process_buffer_loop(_, _)
process_buffer_loop(request_buffer, handed) ==
    IF Len(request_buffer) = 0
    THEN [buffer |-> request_buffer, packets |-> handed]
    ELSE LET start_idx == find(request_buffer, START_FLAG)
         IN  IF start_idx = -1
             THEN [buffer |-> <<>>, packets |-> handed]
             ELSE LET buf == PySlice(request_buffer, start_idx,
                                     Len(request_buffer))
                  IN  IF Len(buf) < 6
                      THEN [buffer |-> buf, packets |-> handed]
                      ELSE IF Len(buf) < total_length(buf[4])
                      THEN [buffer |-> buf, packets |-> handed]
                      ELSE LET packet_data ==
                                   PySlice(buf, 0, total_length(buf[4]))
                               rest ==
                                   PySlice(buf, total_length(buf[4]), Len(buf))
                               packet == from_bytes(packet_data)
                           IN  process_buffer_loop(rest,
                                   IF packet # None
                                   THEN Append(handed, packet[1])
                                   ELSE handed)

process_buffer(request_buffer) == process_buffer_loop(request_buffer, <<>>)

\* should_process of DeviceTab.handle_request.
should_process(packet) ==
    \/ packet.device_address = DEVICE_ADDRESS
    \/ packet.device_address = 0

\* The packets for which handle_request counts the request, logs it and
\* returns: parse_request gives None, or the packet is addressed to another
\* device. (The packets it executes on the register map are not among the
\* inputs of this component.)
handle_request_only_logs(packet) ==
    \/ parse_request(packet) = None
    \/ ~should_process(packet)

\* DeviceTab.handle_raw_data(data): request_buffer.extend(data), then
\* process_buffer(), every extracted packet going through handle_request
\* (request_count += 1).
device_handle_raw_data(data) ==
    LET r == process_buffer(device_request_buffer \o data)
    IN  /\ \A i \in 1..Len(r.packets) : handle_request_only_logs(r.packets[i])
        /\ device_request_buffer' = r.buffer
        /\ device_request_count' = device_request_count + Len(r.packets)
        /\ device_handled' = device_handled \o r.packets

(***************************************************************************)
(* host_tab.py and the host tab's SerialConnection (serial_connection.py)  *)
(***************************************************************************)

\* HostTab.process_response_buffer: the while loop over response_buffer.
RECURSIVE process_response_buffer_loop(_, _)
process_response_buffer_loop(response_buffer, handed) ==
    IF Len(response_buffer) = 0
    THEN [buffer |-> response_buffer, packets |-> handed]
    ELSE LET start_idx == find(response_buffer, START_FLAG)
         IN  IF start_idx = -1
             THEN [buffer |-> <<>>, packets |-> handed]
             ELSE LET buf == PySlice(response_buffer, start_idx,
                                     Len(response_buffer))
                  IN  IF Len(buf) < 6
                      THEN [buffer |-> buf, packets |-> handed]
                      ELSE IF Len(buf) < total_length(buf[4])
                      THEN [buffer |-> buf, packets |-> handed]
                      ELSE LET packet_data ==
                                   PySlice(buf, 0, total_length(buf[4]))
                               rest ==
                                   PySlice(buf, total_length(buf[4]), Len(buf))
                               packet == from_bytes(packet_data)
                           IN  process_response_buffer_loop(rest,
                                   IF packet # None
                                   THEN Append(handed, packet[1])
                                   ELSE handed)

process_response_buffer(response_buffer) ==
    process_response_buffer_loop(response_buffer, <<>>)

\* dict.pop(key): the map without key.
DictPop(d, key) == [k \in DOMAIN d \ {key} |-> d[k]]

\* d[key] = value
DictSet(d, key, value) ==
    [k \in DOMAIN d \cup {key} |-> IF k = key THEN value ELSE d[k]]

\* HostTab.handle_response on the state s = [pending, matched]: a packet whose
\* message id is pending pops the entry and is logged "RX Response"; any
\* other packet is logged "RX Unexpected Response" and changes nothing.
handle_response_matching_any(s, packet) ==
    IF s.pending # <<>>
    THEN LET id == IF packet.message_id \in DOMAIN s.pending
                   THEN packet.message_id
                   ELSE CHOOSE k \in DOMAIN s.pending : TRUE
         IN  [pending |-> DictPop(s.pending, id),
              matched |-> s.matched \cup {s.pending[id]}]
    ELSE s
handle_response(s, packet) ==
    IF packet.message_id \in DOMAIN s.pending
    THEN [pending |-> DictPop(s.pending, packet.message_id),
          matched |-> s.matched \cup {s.pending[packet.message_id]}]
    ELSE s

\* handle_response for every packet of the list, in order.
RECURSIVE handle_responses(_, _)
handle_responses(s, packets) ==
    IF packets = <<>> THEN s
    ELSE handle_responses(handle_response(s, Head(packets)), Tail(packets))

\* HostTab.handle_raw_data(data): response_buffer.extend(data), then
\* process_response_buffer().
host_handle_raw_data(data) ==
    LET r == process_response_buffer(host_response_buffer \o data)
        s == handle_responses([pending |-> host_pending_requests,
                               matched |-> host_matched], r.packets)
    IN  /\ host_response_buffer' = r.buffer
        /\ host_handled' = host_handled \o r.packets
        /\ host_pending_requests' = s.pending
        /\ host_matched' = s.matched
        /\ host_event' = [kind |-> "handle_raw_data",
                          removed |-> s.pending # host_pending_requests]

\* SerialGUI.read_serial_thread, one pass of its loop with data read from the
\* port: the device tab and then the host tab are given the raw data.
read_serial_thread(data) ==
    /\ Len(data) > 0
    /\ device_handle_raw_data(data)
    /\ host_handle_raw_data(data)
    /\ UNCHANGED <<host_is_connected, serial_data_queue, host_data_queue,
                   host_message_id, host_timers, host_timed_out,
                   host_requests, host_rx_pending, host_conn_rx,
                   host_poll_tick>>

\* The argument the timeout callback of HostTab.send_request passes to
\* check_timeout: "lambda: self.check_timeout(self.message_id)" reads
\* self.message_id when the callback runs.
host_timeout_argument_bound_at_send(armed_message_id, message_id) ==
    armed_message_id
host_timeout_argument(armed_message_id, message_id) == message_id

HOST_DEVICE_ADDRESS == 1   \* device_addr_var of the host tab

MaxSends == 2              \* send_request calls
MaxConnRx == 1             \* reads of the host tab's own serial port
MaxGuiRx == 1              \* reads of the main serial port
TypedIds == {0, 255}       \* message ids typed into the message id field
ResponseIds == {0, 1}      \* message ids of the responses on the line

\* The responses a device puts on the line, as bytes.
HostResponses ==
    {to_bytes(read_single_response(HOST_DEVICE_ADDRESS, id, 0, 4660)) :
         id \in ResponseIds}

\* The state after HostTab.__init__ and DeviceTab.__init__.
DeviceInit ==
    /\ device_request_buffer = <<>>
    /\ device_request_count = 0
    /\ device_handled = <<>>

HostInit ==
    /\ host_is_connected = FALSE
    /\ serial_data_queue = <<>>
    /\ host_data_queue = <<>>
    /\ host_message_id = 0
    /\ host_pending_requests = <<>>
    /\ host_timers = {}
    /\ host_response_buffer = <<>>
    /\ host_handled = <<>>
    /\ host_event = [kind |-> "init"]
    /\ host_matched = {}
    /\ host_timed_out = {}
    /\ host_requests = 0
    /\ host_rx_pending = {}
    /\ host_conn_rx = 0
    /\ gui_rx = 0
    /\ host_poll_tick = 0

hostQuiet == <<host_response_buffer, host_handled, host_matched,
               host_timed_out, host_requests, host_rx_pending, host_conn_rx,
               gui_rx, host_poll_tick>>

\* SerialConnection.connect_serial of the host tab.
HostConnectSerial ==
    /\ ~host_is_connected
    /\ host_is_connected' = TRUE
    /\ host_event' = [kind |-> "connect_serial"]
    /\ UNCHANGED <<serial_data_queue, host_data_queue, host_message_id,
                   host_pending_requests, host_timers, hostQuiet>>
    /\ UNCHANGED <<deviceVars, reasmVars, serialOthers>>

\* SerialConnection.disconnect_serial of the host tab.
HostDisconnectSerial ==
    /\ host_is_connected
    /\ host_is_connected' = FALSE
    /\ host_event' = [kind |-> "disconnect_serial"]
    /\ UNCHANGED <<serial_data_queue, host_data_queue, host_message_id,
                   host_pending_requests, host_timers, hostQuiet>>
    /\ UNCHANGED <<deviceVars, reasmVars, serialOthers>>

\* HostTab.on_message_id_change: a valid hex byte typed into the field.
HostOnMessageIdChange ==
    \E msg_id \in TypedIds :
        /\ msg_id # host_message_id
        /\ host_message_id' = msg_id
        /\ host_event' = [kind |-> "on_message_id_change"]
        /\ UNCHANGED <<host_is_connected, serial_data_queue, host_data_queue,
                       host_pending_requests, host_timers, hostQuiet>>
        /\ UNCHANGED <<deviceVars, reasmVars, serialOthers>>

\* The text of the message id field, one character per element.
HexDigits ==
    <<"0", "1", "2", "3", "4", "5", "6", "7",
      "8", "9", "A", "B", "C", "D", "E", "F">>

LowerHexDigits == <<"a", "b", "c", "d", "e", "f">>

\* str.upper, on the characters the texts below are made of
upper_char(c) ==
    IF \E i \in 1..6 : LowerHexDigits[i] = c
    THEN HexDigits[10 + CHOOSE i \in 1..6 : LowerHexDigits[i] = c]
    ELSE IF c = "x" THEN "X" ELSE IF c = "g" THEN "G" ELSE c

upper(text) == [i \in 1..Len(text) |-> upper_char(text[i])]

\* str.strip
strip(text) ==
    LET kept == {i \in 1..Len(text) : text[i] # " "}
    IN  IF kept = {} THEN <<>>
        ELSE LET first == CHOOSE i \in kept : \A j \in kept : i <= j
                 last == CHOOSE i \in kept : \A j \in kept : j <= i
             IN  SubSeq(text, first, last)

is_hex_char(c) == \E i \in 1..16 : HexDigits[i] = c

hex_digit(c) == (CHOOSE i \in 1..16 : HexDigits[i] = c) - 1

\* int(value, 16) of a text of hexadecimal digits
RECURSIVE int_16(_)
int_16(value) ==
    IF value = <<>> THEN 0
    ELSE 16 * int_16(SubSeq(value, 1, Len(value) - 1))
         + hex_digit(value[Len(value)])

\* HostTab.on_message_id_change: the message id after the field was set to
\* the text. An empty text is left alone, a text of one or two hexadecimal
\* digits is taken over, anything else is reverted to the last valid value.
on_message_id_change(message_id, text) ==
    LET value == upper(strip(text))
    IN  IF value = <<>> THEN message_id
        ELSE IF Len(value) <= 2 /\ \A i \in 1..Len(value) : is_hex_char(value[i])
        THEN LET msg_id == int_16(value)
             IN  IF 0 <= msg_id /\ msg_id <= 255 THEN msg_id ELSE message_id
        ELSE message_id

\* Texts typed or pasted into the message id field.
TypedTexts ==
    {<<>>, <<" ">>, <<"0">>, <<"f", "f">>, <<"7", "F">>, <<" ", "8", "0", " ">>,
     <<"1", "0", "0">>, <<"G">>, <<"-", "1">>, <<"0", "x", "1">>}

\* HostTab.on_message_id_change run by the trace of msg_id_var for any text.
HostMessageIdEdited ==
    \E text \in TypedTexts :
        /\ host_message_id' = on_message_id_change(host_message_id, text)
        /\ host_event' = [kind |-> "on_message_id_change", value |-> text]
        /\ UNCHANGED <<host_is_connected, serial_data_queue, host_data_queue,
                       host_pending_requests, host_timers, hostQuiet>>
        /\ UNCHANGED <<deviceVars, reasmVars, serialOthers>>

\* HostTab.send_request with a valid read-single form: the packet is written
\* (send_data also queues it as 'tx' for the log), stored as pending under
\* message_id, its timeout is armed, and message_id moves on.
HostSendRequest ==
    /\ host_is_connected
    /\ host_requests < MaxSends
    /\ LET packet == read_single_request(HOST_DEVICE_ADDRESS, host_message_id, 0)
           n == host_requests + 1
       IN  /\ serial_data_queue' =
                  Append(serial_data_queue, <<"tx", to_bytes(packet)>>)
           /\ host_pending_requests' =
                  DictSet(host_pending_requests, host_message_id, n)
           /\ host_timers' =
                  host_timers \cup {[req |-> n, armed_for |-> host_message_id]}
           /\ host_message_id' = Mask8(host_message_id + 1)
           /\ host_requests' = n
           /\ host_event' = [kind |-> "send_request", req |-> n,
                             msg_id |-> host_message_id]
    /\ UNCHANGED <<host_is_connected, host_data_queue, host_response_buffer,
                   host_handled, host_matched, host_timed_out,
                   host_rx_pending, host_conn_rx, gui_rx, host_poll_tick>>
    /\ UNCHANGED <<deviceVars, reasmVars, serialOthers>>

\* A timeout armed by send_request fires: the callback runs check_timeout.
\* HostTab.check_timeout(msg_id) pops msg_id if it is pending and logs
\* "Timeout for Message ID".
HostTimeoutFires ==
    \E t \in host_timers :
        LET msg_id == host_timeout_argument(t.armed_for, host_message_id)
            is_pending == msg_id \in DOMAIN host_pending_requests
        IN  /\ host_timers' = host_timers \ {t}
            /\ host_pending_requests' =
                   IF is_pending THEN DictPop(host_pending_requests, msg_id)
                   ELSE host_pending_requests
            /\ host_timed_out' =
                   IF is_pending
                   THEN host_timed_out \cup {host_pending_requests[msg_id]}
                   ELSE host_timed_out
            /\ host_event' =
                   [kind |-> "check_timeout", req |-> t.req,
                    armed_for |-> t.armed_for, msg_id |-> msg_id,
                    removed |-> is_pending]
            /\ UNCHANGED <<host_is_connected, serial_data_queue,
                           host_data_queue, host_message_id,
                           host_response_buffer, host_handled, host_matched,
                           host_requests, host_rx_pending, host_conn_rx,
                           gui_rx, host_poll_tick>>
            /\ UNCHANGED <<deviceVars, reasmVars, serialOthers>>

\* The request answered by data, a read of the host tab's port: the pending
\* request with the message id of the packet in data, if its timeout has
\* not fired yet.
answered_by(data) ==
    LET packet == from_bytes(data)
    IN  IF packet # None /\ packet[1].message_id \in DOMAIN host_pending_requests
        THEN {n \in {host_pending_requests[packet[1].message_id]} :
                  \E t \in host_timers : t.req = n}
        ELSE {}

\* SerialConnection._read_serial_thread of the host tab, one pass of its loop
\* with data read from the port: data_queue.put(('rx', data, timestamp)).
HostReadSerialThread ==
    \E data \in HostResponses :
        /\ host_is_connected
        /\ host_conn_rx < MaxConnRx
        /\ serial_data_queue' = Append(serial_data_queue, <<"rx", data>>)
        /\ host_rx_pending' = host_rx_pending \cup answered_by(data)
        /\ host_conn_rx' = host_conn_rx + 1
        /\ host_event' = [kind |-> "_read_serial_thread"]
        /\ UNCHANGED <<host_is_connected, host_data_queue, host_message_id,
                       host_pending_requests, host_timers,
                       host_response_buffer, host_handled, host_matched,
                       host_timed_out, host_requests, gui_rx, host_poll_tick>>
        /\ UNCHANGED <<deviceVars, reasmVars, serialOthers>>

\* HostTab.on_data_received for every entry of the list: 'rx' data goes to
\* the host tab's data_queue, 'tx' entries are the callback's other branch.
on_data_received(queue, entries) ==
    queue \o [i \in 1..Len(SelectSeq(entries, LAMBDA e : e[1] = "rx")) |->
                  SelectSeq(entries, LAMBDA e : e[1] = "rx")[i][2]]

\* SerialConnection.check_data_queue of the host tab (every 25 ms): the
\* queue is drained, each entry going to HostTab.on_data_received.
HostCheckDataQueue ==
    /\ serial_data_queue # <<>>
    /\ serial_data_queue' = <<>>
    /\ host_data_queue' = on_data_received(host_data_queue, serial_data_queue)
    /\ host_event' = [kind |-> "check_data_queue"]
    /\ UNCHANGED <<host_is_connected, host_message_id, host_pending_requests,
                   host_timers, hostQuiet>>
    /\ UNCHANGED <<deviceVars, reasmVars, serialOthers>>

\* HostTab.process_responses (every 5 ms): it schedules its next run and does
\* nothing else; HostTab.data_queue is not read.
HostProcessResponses ==
    /\ host_poll_tick' = 1 - host_poll_tick
    /\ UNCHANGED <<host_is_connected, serial_data_queue, host_data_queue,
                   host_message_id, host_pending_requests, host_timers,
                   host_response_buffer, host_handled, host_event,
                   host_matched, host_timed_out, host_requests,
                   host_rx_pending, host_conn_rx, gui_rx>>
    /\ UNCHANGED <<deviceVars, reasmVars, serialOthers>>

\* The main serial port delivers a response: SerialGUI.read_serial_thread.
GuiReadSerialThread ==
    \E data \in HostResponses :
        /\ gui_rx < MaxGuiRx
        /\ read_serial_thread(data)
        /\ gui_rx' = gui_rx + 1
        /\ UNCHANGED <<reasmVars, serialOthers>>

(***************************************************************************)
(* The reassembly harness: a byte stream reaches handle_raw_data of both   *)
(* tabs in chunks of any sizes.                                            *)
(***************************************************************************)

MaxItems == 3              \* packets and noise runs in a stream

\* Packets of the stream: a response, and a request for another device
\* whose data holds a 0x7E.
RsPackets ==
    {read_single_response(1, 16, 0, 4660),
     read_single_request(2, 17, START_FLAG)}

\* to_bytes(p) with its last byte changed.
Corrupted(p) ==
    LET b == to_bytes(p)
    IN  [b EXCEPT ![Len(b)] = Mask8(b[Len(b)] + 1)]

NoPacket == Packet(0, 0, 0, <<>>)

RsItems ==
    {[valid |-> TRUE, packet |-> p, bytes |-> to_bytes(p)] : p \in RsPackets}
        \cup {[valid |-> FALSE, packet |-> NoPacket, bytes |-> <<0>>],
              [valid |-> FALSE, packet |-> NoPacket, bytes |-> <<START_FLAG>>],
              [valid |-> FALSE, packet |-> NoPacket,
               bytes |-> Corrupted(read_single_response(1, 16, 0, 4660))]}

RECURSIVE ItemBytes(_, _)
ItemBytes(items, n) ==
    IF n = 0 THEN <<>> ELSE ItemBytes(items, n - 1) \o items[n].bytes

\* The whole stream.
rs_stream == ItemBytes(rs_items, Len(rs_items))

ReasmInit ==
    /\ rs_items \in UNION {[1..k -> RsItems] : k \in 1..MaxItems}
    /\ rs_fed = 0
    /\ rs_split = FALSE

\* The next k bytes of the stream are read from the main serial port.
ReasmFeed ==
    \E k \in 1..(Len(rs_stream) - rs_fed) :
        LET data == SubSeq(rs_stream, rs_fed + 1, rs_fed + k)
        IN  /\ read_serial_thread(data)
            /\ rs_fed' = rs_fed + k
            /\ rs_split' = (rs_split \/
                   (host_response_buffer # <<>>
                        /\ Len(host_handled') > Len(host_handled)))
            /\ UNCHANGED <<rs_items, gui_rx, serialOthers>>

\* Streams that fill the buffers: the first bytes of a frame whose length
\* byte is 255, a valid packet, and a noise byte.
MaxBufferItems == 2        \* items of such a stream

LongFrameStart == <<START_FLAG, 1, 2, 255>> \o [i \in 1..128 |-> 0]

RsBufferItems ==
    {[valid |-> FALSE, packet |-> NoPacket, bytes |-> LongFrameStart],
     [valid |-> TRUE, packet |-> read_single_response(1, 16, 0, 4660),
      bytes |-> to_bytes(read_single_response(1, 16, 0, 4660))],
     [valid |-> FALSE, packet |-> NoPacket, bytes |-> <<0>>]}

\* The sizes of the reads: serial_port.read(4096) returns what has arrived.
BlockSizes(n) == {k \in {1, 5, 131, n} : 1 <= k /\ k <= n}

BufferInit ==
    /\ rs_items \in UNION {[1..k -> RsBufferItems] : k \in 1..MaxBufferItems}
    /\ rs_fed = 0
    /\ rs_split = FALSE

\* The next block of the stream is read from the main serial port.
ReasmFeedBlock ==
    \E k \in BlockSizes(Len(rs_stream) - rs_fed) :
        LET data == SubSeq(rs_stream, rs_fed + 1, rs_fed + k)
        IN  /\ read_serial_thread(data)
            /\ rs_fed' = rs_fed + k
            /\ UNCHANGED <<rs_items, rs_split, gui_rx, serialOthers>>

(***************************************************************************)
(* modbus_tcp_master_tab.py: requests, their timeouts, and the receive     *)
(* worker of the Modbus TCP master                                         *)
(***************************************************************************)

MaxMasterSends == 2        \* send_request calls
MaxServerFrames == 1       \* frames the server writes to the connection
RECV_BUFSIZE == 1024       \* client_socket.recv(1024)

ServerTids == {1, 2}       \* transaction ids of the frames the server writes

\* The frames a server writes: one-register read responses (11 bytes) and
\* an exception response (9 bytes).
ServerFrames ==
    {read_holding_registers_response(tid, 1, <<4660>>) : tid \in ServerTids}
        \cup {exception_response(1, 1, READ_HOLDING_REGISTERS, 2)}

\* What one recv may return of the n bytes the connection holds: all of
\* them, or only the first 4, 9 or 11.
RecvSizes(n) == {k \in {4, 9, 11, n} : 1 <= k /\ k <= n /\ k <= RECV_BUFSIZE}

\* The argument the timeout callback of send_request passes to check_timeout:
\* "lambda tid=self.transaction_id: self.check_timeout(tid)" keeps the
\* transaction id of the request it was armed for.
master_timeout_argument_read_late(armed_tid, transaction_id) == transaction_id
master_timeout_argument(armed_tid, transaction_id) == armed_tid

\* transaction_id = (transaction_id % 65535) + 1
next_transaction_id_mod_65536(transaction_id) == (transaction_id + 1) % 65536
next_transaction_id(transaction_id) == (transaction_id % 65535) + 1

\* The state after ModbusTCPMasterTab.__init__, and after sent requests that
\* all timed out.
MasterAfterTimeouts(sent) ==
    /\ master_is_connected = FALSE
    /\ master_transaction_id = sent + 1
    /\ master_pending_requests = <<>>
    /\ master_timers = {}
    /\ master_after_queue = <<>>
    /\ master_request_count = sent
    /\ master_response_count = 0
    /\ master_timeout_count = sent
    /\ master_error_count = 0
    /\ master_socket = <<>>
    /\ master_event = [kind |-> "init"]
    /\ master_status = [n \in 1..MaxMasterSends |-> "unsent"]
    /\ master_requests = 0
    /\ master_wire = <<>>
    /\ master_handled = <<>>
    /\ master_server_frames = 0

MasterInit == MasterAfterTimeouts(0)

masterCounts == <<master_request_count, master_response_count,
                  master_timeout_count, master_error_count>>

\* connect_to_server, the connection succeeding: a new socket, and a receive
\* worker for it.
MasterConnect ==
    /\ ~master_is_connected
    /\ master_is_connected' = TRUE
    /\ master_socket' = <<>>
    /\ master_wire' = <<>>
    /\ master_handled' = <<>>
    /\ master_event' = [kind |-> "connect_to_server"]
    /\ UNCHANGED <<master_transaction_id, master_pending_requests,
                   master_timers, master_after_queue, masterCounts,
                   master_status, master_requests, master_server_frames>>
    /\ UNCHANGED masterOthers

\* disconnect_from_server without "self.pending_requests.clear()"
disconnect_keeping_pending_requests(kind) ==
    /\ master_is_connected' = FALSE
    /\ master_socket' = <<>>
    /\ master_status' =
           [n \in DOMAIN master_status |->
                IF master_status[n] = "pending" THEN "cleared"
                ELSE master_status[n]]
    /\ master_event' = [kind |-> kind]
    /\ UNCHANGED <<master_transaction_id, master_pending_requests,
                   master_timers, master_after_queue, masterCounts,
                   master_requests, master_wire, master_handled,
                   master_server_frames>>
    /\ UNCHANGED masterOthers

\* disconnect_from_server: the socket is closed and pending_requests cleared.
disconnect_from_server(kind) ==
    /\ master_is_connected' = FALSE
    /\ master_socket' = <<>>
    /\ master_pending_requests' = <<>>
    /\ master_status' =
           [n \in DOMAIN master_status |->
                IF master_status[n] = "pending" THEN "cleared"
                ELSE master_status[n]]
    /\ master_event' = [kind |-> kind]
    /\ UNCHANGED <<master_transaction_id, master_timers, master_after_queue,
                   masterCounts, master_requests, master_wire, master_handled,
                   master_server_frames>>
    /\ UNCHANGED masterOthers

\* The Disconnect button.
MasterDisconnect ==
    /\ master_is_connected
    /\ disconnect_from_server("disconnect_from_server")

\* send_request with a valid read form: the frame is sent, request_count
\* counted, the request stored under transaction_id, its timeout armed, and
\* transaction_id moves on.
MasterSendRequest ==
    /\ master_is_connected
    /\ master_requests < MaxMasterSends
    /\ LET tid == master_transaction_id
           n == master_requests + 1
       IN  /\ master_request_count' = master_request_count + 1
           /\ master_pending_requests' =
                  DictSet(master_pending_requests, tid, n)
           /\ master_timers' = master_timers \cup {[req |-> n, tid |-> tid]}
           /\ master_transaction_id' = next_transaction_id(tid)
           /\ master_requests' = n
           /\ master_status' = [master_status EXCEPT ![n] = "pending"]
           /\ master_event' = [kind |-> "send_request", req |-> n, tid |-> tid]
    /\ UNCHANGED <<master_is_connected, master_after_queue,
                   master_response_count, master_timeout_count,
                   master_error_count, master_socket, master_wire,
                   master_handled, master_server_frames>>
    /\ UNCHANGED masterOthers

\* send_request when client_socket.send raises: "Failed to send request",
\* then disconnect_from_server.
MasterSendRequestFails ==
    /\ master_is_connected
    /\ disconnect_from_server("send_request_failed")

\* The server writes a frame to the connection.
ServerSends ==
    \E frame \in ServerFrames :
        /\ master_is_connected
        /\ master_server_frames < MaxServerFrames
        /\ master_socket' = master_socket \o frame_to_bytes(frame)
        /\ master_wire' = Append(master_wire, frame)
        /\ master_server_frames' = master_server_frames + 1
        /\ master_event' = [kind |-> "server_sends"]
        /\ UNCHANGED <<master_is_connected, master_transaction_id,
                       master_pending_requests, master_timers,
                       master_after_queue, masterCounts, master_status,
                       master_requests, master_handled>>
        /\ UNCHANGED masterOthers

\* receive_worker, one pass of its loop: recv(1024) returns the first k
\* bytes of what the connection holds, the bytes are decoded as one frame,
\* and a decoded frame goes to handle_response, which leaves its
\* process_response to the main thread (frame.after(0, ...)).
MasterReceiveWorker ==
    \E k \in RecvSizes(Len(master_socket)) :
        LET data == SubSeq(master_socket, 1, k)
            response == frame_from_bytes(data)
        IN  /\ master_is_connected
            /\ master_socket' = SubSeq(master_socket, k + 1, Len(master_socket))
            /\ master_after_queue' =
                   IF response # None
                   THEN Append(master_after_queue, response[1])
                   ELSE master_after_queue
            /\ master_handled' =
                   IF response # None
                   THEN Append(master_handled, response[1])
                   ELSE master_handled
            /\ master_event' = [kind |-> "receive_worker",
                                decoded |-> response # None]
            /\ UNCHANGED <<master_is_connected, master_transaction_id,
                           master_pending_requests, master_timers,
                           masterCounts, master_status, master_requests,
                           master_wire, master_server_frames>>
            /\ UNCHANGED masterOthers

\* process_response of handle_response, run by the main thread: an unknown
\* transaction id is logged and dropped; a pending one is popped and counted,
\* an exception response also counting as an error.
MasterProcessResponse ==
    /\ master_after_queue # <<>>
    /\ LET response == Head(master_after_queue)
           tid == response.transaction_id
           is_pending == tid \in DOMAIN master_pending_requests
           is_error == is_pending /\ HasErrorBit(response.function_code)
       IN  /\ master_after_queue' = Tail(master_after_queue)
           /\ master_pending_requests' =
                  IF is_pending THEN DictPop(master_pending_requests, tid)
                  ELSE master_pending_requests
           /\ master_response_count' =
                  master_response_count + (IF is_pending THEN 1 ELSE 0)
           /\ master_error_count' =
                  master_error_count + (IF is_error THEN 1 ELSE 0)
           /\ master_status' =
                  IF is_pending
                  THEN [master_status EXCEPT
                            ![master_pending_requests[tid]] = "matched"]
                  ELSE master_status
           /\ master_event' =
                  [kind |-> "process_response", tid |-> tid,
                   removed |-> is_pending]
    /\ UNCHANGED <<master_is_connected, master_transaction_id, master_timers,
                   master_request_count, master_timeout_count, master_socket,
                   master_requests, master_wire, master_handled,
                   master_server_frames>>
    /\ UNCHANGED masterOthers

\* A timeout armed by send_request fires: check_timeout(transaction_id) pops
\* the id if it is pending and counts a timeout.
MasterTimeoutFires ==
    \E t \in master_timers :
        LET tid == master_timeout_argument(t.tid, master_transaction_id)
            is_pending == tid \in DOMAIN master_pending_requests
        IN  /\ master_timers' = master_timers \ {t}
            /\ master_pending_requests' =
                   IF is_pending THEN DictPop(master_pending_requests, tid)
                   ELSE master_pending_requests
            /\ master_timeout_count' =
                   master_timeout_count + (IF is_pending THEN 1 ELSE 0)
            /\ master_status' =
                   IF is_pending
                   THEN [master_status EXCEPT
                             ![master_pending_requests[tid]] = "timed_out"]
                   ELSE master_status
            /\ master_event' =
                   [kind |-> "check_timeout", req |-> t.req, armed_for |-> t.tid,
                    tid |-> tid,
                    was_pending |-> master_status[t.req] = "pending",
                    removed |-> is_pending,
                    removed_req |-> IF is_pending
                                    THEN master_pending_requests[tid] ELSE 0,
                    timeout_count_before |-> master_timeout_count]
            /\ UNCHANGED <<master_is_connected, master_transaction_id,
                           master_after_queue, master_request_count,
                           master_response_count, master_error_count,
                           master_socket, master_requests, master_wire,
                           master_handled, master_server_frames>>
            /\ UNCHANGED masterOthers

(***************************************************************************)
(* The decoder harness: Packet.from_bytes and ModbusTCPFrame.from_bytes on *)
(* arbitrary byte strings, PacketParser on every packet decoded.           *)
(***************************************************************************)

WRITE_SINGLE_RESP == 66    \* FunctionCode.WRITE_SINGLE_RESP    0x42
READ_MULTIPLE_RESP == 67   \* FunctionCode.READ_MULTIPLE_RESP   0x43
WRITE_MULTIPLE_RESP == 68  \* FunctionCode.WRITE_MULTIPLE_RESP  0x44

INVALID_FUNCTION == 1      \* ErrorCode.INVALID_FUNCTION  0x01
INVALID_ADDRESS == 2       \* ErrorCode.INVALID_ADDRESS   0x02
INVALID_VALUE == 3         \* ErrorCode.INVALID_VALUE     0x03
INTERNAL_ERROR == 255      \* ErrorCode.INTERNAL_ERROR    0xFF

\* PacketParser.get_error_description
get_error_description(error_code) ==
    CASE error_code = INVALID_FUNCTION -> <<"Invalid or unsupported function">>
      [] error_code = INVALID_ADDRESS -> <<"Invalid register address">>
      [] error_code = INVALID_VALUE -> <<"Invalid register value">>
      [] error_code = INTERNAL_ERROR -> <<"Internal/unspecified error">>
      [] OTHER -> <<"Unknown error", error_code>>

\* The values of a multiple-register payload: for i in range(count), the
\* word at offset 3 + 2i is appended when offset + 1 < len(data).
multiple_values(d) ==
    LET offsets == {3 + i * 2 : i \in 0..(d[3] - 1)}
        kept == Cardinality({o \in offsets : o + 1 < Len(d)})
    IN  [i \in 1..kept |-> decode_word(d, 3 + (i - 1) * 2)]

\* PacketParser.parse_response: None, or the parsed fields.
parse_response(packet) ==
    LET result == [device_address |-> packet.device_address,
                   message_id     |-> packet.message_id,
                   function_code  |-> packet.function_code]
        d == packet.data
        error_code == IF Len(d) > 0 THEN d[1] ELSE 0
    IN  IF HasErrorBit(packet.function_code)
        THEN Some(result @@ [is_error |-> TRUE, error_code |-> error_code,
                             error_description |->
                                 get_error_description(error_code)])
        ELSE IF packet.function_code \in {READ_SINGLE_RESP, WRITE_SINGLE_RESP}
                /\ Len(d) >= 4
        THEN Some(result @@ [is_error |-> FALSE,
                             register_address |-> decode_word(d, 0),
                             register_value   |-> decode_word(d, 2)])
        ELSE IF packet.function_code = READ_MULTIPLE_RESP /\ Len(d) >= 3
        THEN Some(result @@ [is_error |-> FALSE,
                             register_address |-> decode_word(d, 0),
                             count            |-> d[3],
                             values           |-> multiple_values(d)])
        ELSE IF packet.function_code = WRITE_MULTIPLE_RESP /\ Len(d) >= 3
        THEN Some(result @@ [is_error |-> FALSE,
                             register_address |-> decode_word(d, 0),
                             count            |-> d[3]])
        ELSE None

\* if len(data) < 6 + length: return None
packet_fits_short(data, length) == ~(Len(data) < 5 + length)
packet_fits(data, length) == ~(Len(data) < 6 + length)

\* The indexes Packet.from_bytes subscripts data with (data[i], not a
\* slice), on the path it takes for this input.
from_bytes_indexes(data) ==
    IF Len(data) < 7 THEN {}
    ELSE IF data[1] # START_FLAG THEN {0}
    ELSE LET length == data[4]
         IN  IF ~packet_fits(data, length) THEN {0, 1, 2, 3}
             ELSE {0, 1, 2, 3, 4, 4 + length, 5 + length}

\* The indexes ModbusTCPFrame.from_bytes subscripts data with; the header
\* is unpacked from the slice data[:7].
frame_from_bytes_indexes(data) ==
    IF Len(data) < 8 THEN {}
    ELSE IF unpack_H(PySlice(data, 2, 4)) # 0 THEN {}
    ELSE IF Len(data) < 6 + unpack_H(PySlice(data, 4, 6)) THEN {}
    ELSE {7}

\* The indexes parse_request and parse_response subscript packet.data with.
parse_request_indexes(packet) ==
    IF packet.function_code \in {READ_MULTIPLE, WRITE_MULTIPLE}
       /\ Len(packet.data) >= 3
    THEN {2} ELSE {}

parse_response_indexes(packet) ==
    IF HasErrorBit(packet.function_code)
    THEN (IF Len(packet.data) > 0 THEN {0} ELSE {})
    ELSE IF packet.function_code \in {READ_MULTIPLE_RESP, WRITE_MULTIPLE_RESP}
            /\ Len(packet.data) >= 3
    THEN {2} ELSE {}

\* bytes[i] raises IndexError unless -len <= i < len.
subscript_raises(n, indexes) == \E i \in indexes : i >= n \/ i < -n

MaxDecodeData == 4

DxDataBytes == {1, 255}
DxFuncs == {0, 1, 2, 3, 4, 65, 66, 67, 68, 129}
DxLengths == {0, 1, 2, 3, 8, 255}

\* Encoded packets, the same with the length byte overwritten, and every
\* prefix of both.
DxPacketStrings ==
    LET encoded == {to_bytes(Packet(1, 16, f, d)) :
                        f \in DxFuncs, d \in SeqsUpTo(DxDataBytes, MaxDecodeData)}
        relabelled == {[b EXCEPT ![4] = l] : b \in encoded, l \in DxLengths}
    IN  {PySlice(b, 0, k) : b \in encoded \cup relabelled,
                            k \in 0..(MaxDecodeData + 7)}

DxFrameLengths == 0..(MaxDecodeData + 3)
DxProtocolIds == {0, 1, 256}
DxFrameFuncs == {3, 16, 131}

\* MBAP headers with any protocol id and any length field, followed by a
\* function code and data of any length, and every prefix of them.
DxFrameStrings ==
    LET whole == {pack_H(1) \o pack_H(pid) \o pack_H(l) \o <<1, f>> \o d :
                      pid \in DxProtocolIds, l \in DxFrameLengths,
                      f \in DxFrameFuncs,
                      d \in SeqsUpTo({7}, MaxDecodeData)}
    IN  {PySlice(b, 0, k) : b \in whole, k \in 0..(MaxDecodeData + 8)}

DxInit ==
    /\ dx_kind \in {"packet", "frame"}
    /\ dx_bytes \in (IF dx_kind = "packet" THEN DxPacketStrings
                     ELSE DxFrameStrings)
    /\ dx_stage = "input"
    /\ dx_result = None
    /\ dx_parsed = None
    /\ dx_reads = {}
    /\ dx_len = 0

DecodeIdle ==
    /\ dx_kind = "none"
    /\ dx_bytes = <<>>
    /\ dx_stage = "idle"
    /\ dx_result = None
    /\ dx_parsed = None
    /\ dx_reads = {}
    /\ dx_len = 0

\* Packet.from_bytes(dx_bytes)
DxPacketFromBytes ==
    /\ dx_stage = "input"
    /\ dx_kind = "packet"
    /\ dx_reads' = from_bytes_indexes(dx_bytes)
    /\ dx_len' = Len(dx_bytes)
    /\ IF subscript_raises(Len(dx_bytes), from_bytes_indexes(dx_bytes))
       THEN dx_stage' = "raised" /\ UNCHANGED dx_result
       ELSE dx_stage' = "decoded" /\ dx_result' = from_bytes(dx_bytes)
    /\ UNCHANGED <<dx_kind, dx_bytes, dx_parsed, decodeOthers>>

\* ModbusTCPFrame.from_bytes(dx_bytes)
DxFrameFromBytes ==
    /\ dx_stage = "input"
    /\ dx_kind = "frame"
    /\ dx_reads' = frame_from_bytes_indexes(dx_bytes)
    /\ dx_len' = Len(dx_bytes)
    /\ IF subscript_raises(Len(dx_bytes), frame_from_bytes_indexes(dx_bytes))
       THEN dx_stage' = "raised" /\ UNCHANGED dx_result
       ELSE dx_stage' = "decoded" /\ dx_result' = frame_from_bytes(dx_bytes)
    /\ UNCHANGED <<dx_kind, dx_bytes, dx_parsed, decodeOthers>>

\* PacketParser.parse_request(packet) for a decoded packet
DxParseRequest ==
    /\ dx_stage = "decoded"
    /\ dx_kind = "packet"
    /\ dx_result # None
    /\ LET packet == dx_result[1]
       IN  /\ dx_reads' = parse_request_indexes(packet)
           /\ dx_len' = Len(packet.data)
           /\ IF subscript_raises(Len(packet.data),
                                  parse_request_indexes(packet))
              THEN dx_stage' = "raised" /\ UNCHANGED dx_parsed
              ELSE /\ dx_stage' = "parsed"
                   /\ dx_parsed' = [parser |-> "parse_request",
                                    result |-> parse_request(packet)]
    /\ UNCHANGED <<dx_kind, dx_bytes, dx_result, decodeOthers>>

\* PacketParser.parse_response(packet) for a decoded packet
DxParseResponse ==
    /\ dx_stage = "decoded"
    /\ dx_kind = "packet"
    /\ dx_result # None
    /\ LET packet == dx_result[1]
       IN  /\ dx_reads' = parse_response_indexes(packet)
           /\ dx_len' = Len(packet.data)
           /\ IF subscript_raises(Len(packet.data),
                                  parse_response_indexes(packet))
              THEN dx_stage' = "raised" /\ UNCHANGED dx_parsed
              ELSE /\ dx_stage' = "parsed"
                   /\ dx_parsed' = [parser |-> "parse_response",
                                    result |-> parse_response(packet)]
    /\ UNCHANGED <<dx_kind, dx_bytes, dx_result, decodeOthers>>

(***************************************************************************)
(* protocol.py RegisterMap and modbus_tcp_protocol.py ModbusRegisterMap    *)
(***************************************************************************)

\* self.size = size; self.registers = [0] * size
RegisterMap(size) == [size |-> size, registers |-> [i \in 1..size |-> 0]]

\* RegisterMap.read: the value, or None.
read(map, address) ==
    IF 0 <= address /\ address < map.size
    THEN Some(map.registers[address + 1])
    ELSE None

\* if 0 <= address < self.size and 0 <= value <= 0xFFFF
write_accepts_any_value(map, address, value) ==
    0 <= address /\ address < map.size
write_accepts(map, address, value) ==
    0 <= address /\ address < map.size /\ 0 <= value /\ value <= 65535

\* RegisterMap.write: the value returned and the map it leaves.
write(map, address, value) ==
    IF write_accepts(map, address, value)
    THEN [ok |-> TRUE,
          map |-> [map EXCEPT !.registers[address + 1] = value]]
    ELSE [ok |-> FALSE, map |-> map]

\* RegisterMap.read_multiple: registers[address:address + count], or None.
read_multiple(map, address, count) ==
    IF 0 <= address /\ address < map.size /\ address + count <= map.size
    THEN Some(PySlice(map.registers, address, address + count))
    ELSE None

\* for i, value in enumerate(values): if not (0 <= value <= 0xFFFF): return False
values_in_range_first_only(values) ==
    Len(values) = 0 \/ (0 <= values[1] /\ values[1] <= 65535)
values_in_range(values) ==
    \A i \in 1..Len(values) : 0 <= values[i] /\ values[i] <= 65535

\* The same loop leaving after its first pass.
store_values_first_only(map, address, values) ==
    [map EXCEPT !.registers =
        [k \in 1..Len(map.registers) |->
            IF k - 1 = address /\ Len(values) > 0
            THEN values[1] ELSE map.registers[k]]]

\* for i, value in enumerate(values): self.registers[address + i] = value
store_values(map, address, values) ==
    [map EXCEPT !.registers =
        [k \in 1..Len(map.registers) |->
            IF k - 1 >= address /\ k - 1 < address + Len(values)
            THEN values[k - address] ELSE map.registers[k]]]

\* RegisterMap.write_multiple
write_multiple(map, address, values) ==
    IF 0 <= address /\ address < map.size
       /\ address + Len(values) <= map.size
    THEN IF values_in_range(values)
         THEN [ok |-> TRUE, map |-> store_values(map, address, values)]
         ELSE [ok |-> FALSE, map |-> map]
    ELSE [ok |-> FALSE, map |-> map]

\* RegisterMap.clear and ModbusRegisterMap.clear: registers = [0] * size
clear(map) == [map EXCEPT !.registers = [i \in 1..map.size |-> 0]]

DEFAULT_MODBUS_MAP_SIZE == 1000    \* ModbusRegisterMap.__init__ size

ModbusRegisterMap(size) == RegisterMap(size)

\* ModbusRegisterMap.read_registers
read_registers(map, start_address, count) ==
    IF start_address < 0 \/ start_address >= map.size THEN None
    ELSE IF count < 1 \/ count > ReadLimit THEN None
    ELSE IF start_address + count > map.size THEN None
    ELSE Some(PySlice(map.registers, start_address, start_address + count))

\* ModbusRegisterMap.write_registers
write_registers(map, start_address, values) ==
    IF start_address < 0 \/ start_address >= map.size
    THEN [ok |-> FALSE, map |-> map]
    ELSE IF Len(values) < 1 \/ Len(values) > WriteLimit
    THEN [ok |-> FALSE, map |-> map]
    ELSE IF start_address + Len(values) > map.size
    THEN [ok |-> FALSE, map |-> map]
    ELSE IF \E i \in 1..Len(values) : ~(0 <= values[i] /\ values[i] <= 65535)
    THEN [ok |-> FALSE, map |-> map]
    ELSE [ok |-> TRUE, map |-> store_values(map, start_address, values)]

\* ModbusRegisterMap.get_register
get_register(map, address) ==
    IF 0 <= address /\ address < map.size
    THEN map.registers[address + 1] ELSE 0

\* if 0 <= address < self.size and 0 <= value <= 0xFFFF
set_register_accepts(map, address, value) ==
    0 <= address /\ address < map.size /\ 0 <= value /\ value <= 65535

\* ModbusRegisterMap.set_register
set_register(map, address, value) ==
    IF set_register_accepts(map, address, value)
    THEN [ok |-> TRUE,
          map |-> [map EXCEPT !.registers[address + 1] = value]]
    ELSE [ok |-> FALSE, map |-> map]

(***************************************************************************)
(* The register map harness: a map of some size, and calls of its methods  *)
(* with addresses and values inside and outside their ranges.              *)
(***************************************************************************)

MaxMapCalls == 2
MaxMapValues == 2

RmSizes == {2, 130}
RmAddresses(n) == {-1, 0, n - 1, n}
RmValues == {-1, 4660, 65535, 65536}
RmCounts == {-1, 0, 1, 2, 125, 126}
RmLists ==
    SeqsUpTo({4660, 65536}, MaxMapValues)
        \cup {<<4660, -1>>, ManyValues(WriteLimit), ManyValues(WriteLimit + 1)}

RmInit ==
    /\ rm_kind \in {"RegisterMap", "ModbusRegisterMap"}
    /\ \E n \in RmSizes : rm_map = RegisterMap(n)
    /\ rm_before = rm_map
    /\ rm_call = [op |-> "init"]
    /\ rm_result = None
    /\ rm_calls = 0

RegMapIdle ==
    /\ rm_kind = "none"
    /\ rm_map = RegisterMap(0)
    /\ rm_before = RegisterMap(0)
    /\ rm_call = [op |-> "none"]
    /\ rm_result = None
    /\ rm_calls = 0

\* One call: the call, what it returned, the map before and after.
RmCalled(call, result, map) ==
    /\ rm_calls < MaxMapCalls
    /\ rm_calls' = rm_calls + 1
    /\ rm_call' = call
    /\ rm_result' = result
    /\ rm_before' = rm_map
    /\ rm_map' = map
    /\ UNCHANGED <<rm_kind, regmapOthers>>

RmRead ==
    /\ rm_kind = "RegisterMap"
    /\ \E a \in RmAddresses(rm_map.size) :
          RmCalled([op |-> "read", address |-> a], read(rm_map, a), rm_map)

RmWrite ==
    /\ rm_kind = "RegisterMap"
    /\ \E a \in RmAddresses(rm_map.size), v \in RmValues :
          LET r == write(rm_map, a, v)
          IN  RmCalled([op |-> "write", address |-> a, value |-> v],
                       r.ok, r.map)

RmReadMultiple ==
    /\ rm_kind = "RegisterMap"
    /\ \E a \in RmAddresses(rm_map.size), c \in RmCounts :
          RmCalled([op |-> "read_multiple", address |-> a, count |-> c],
                   read_multiple(rm_map, a, c), rm_map)

RmWriteMultiple ==
    /\ rm_kind = "RegisterMap"
    /\ \E a \in RmAddresses(rm_map.size), vs \in RmLists :
          LET r == write_multiple(rm_map, a, vs)
          IN  RmCalled([op |-> "write_multiple", address |-> a, values |-> vs],
                       r.ok, r.map)

RmClear ==
    RmCalled([op |-> "clear"], None, clear(rm_map))

RmReadRegisters ==
    /\ rm_kind = "ModbusRegisterMap"
    /\ \E a \in RmAddresses(rm_map.size), c \in RmCounts :
          RmCalled([op |-> "read_registers", address |-> a, count |-> c],
                   read_registers(rm_map, a, c), rm_map)

RmWriteRegisters ==
    /\ rm_kind = "ModbusRegisterMap"
    /\ \E a \in RmAddresses(rm_map.size), vs \in RmLists :
          LET r == write_registers(rm_map, a, vs)
          IN  RmCalled([op |-> "write_registers", address |-> a, values |-> vs],
                       r.ok, r.map)

RmGetRegister ==
    /\ rm_kind = "ModbusRegisterMap"
    /\ \E a \in RmAddresses(rm_map.size) :
          RmCalled([op |-> "get_register", address |-> a],
                   get_register(rm_map, a), rm_map)

RmSetRegister ==
    /\ rm_kind = "ModbusRegisterMap"
    /\ \E a \in RmAddresses(rm_map.size), v \in RmValues :
          LET r == set_register(rm_map, a, v)
          IN  RmCalled([op |-> "set_register", address |-> a, value |-> v],
                       r.ok, r.map)

(***************************************************************************)
(* device_tab.py: the device session. A request read from the serial port  *)
(* goes through handle_raw_data, process_buffer and handle_request, which  *)
(* executes it on the register map and writes the response.                *)
(***************************************************************************)

DEVICE_MAP_SIZE == 256     \* RegisterMap(size=256) of DeviceTab.__init__

\* ---- PacketBuilder: the responses ----

write_single_response(device_addr, msg_id, reg_addr, reg_value) ==
    Packet(device_addr, msg_id, WRITE_SINGLE_RESP,
           encode_word(reg_addr) \o encode_word(reg_value))

\* data = encode_word(reg_addr) + bytes([len(values)]), then every value
read_multiple_response(device_addr, msg_id, reg_addr, values) ==
    Packet(device_addr, msg_id, READ_MULTIPLE_RESP,
           encode_word(reg_addr) \o <<Len(values)>> \o pack_values(values))

write_multiple_response(device_addr, msg_id, reg_addr, count) ==
    Packet(device_addr, msg_id, WRITE_MULTIPLE_RESP,
           encode_word(reg_addr) \o <<count>>)

\* error_func = 0x80 | function_code; data = bytes([error_code])
error_response_unmarked(device_addr, msg_id, function_code, error_code) ==
    Packet(device_addr, msg_id, function_code, <<error_code>>)
error_response(device_addr, msg_id, function_code, error_code) ==
    Packet(device_addr, msg_id, SetErrorBit(function_code), <<error_code>>)

\* The requests of PacketBuilder.
write_single_request(device_addr, msg_id, reg_addr, reg_value) ==
    Packet(device_addr, msg_id, WRITE_SINGLE,
           encode_word(reg_addr) \o encode_word(reg_value))

read_multiple_request(device_addr, msg_id, reg_addr, count) ==
    Packet(device_addr, msg_id, READ_MULTIPLE, encode_word(reg_addr) \o <<count>>)

write_multiple_request(device_addr, msg_id, reg_addr, values) ==
    Packet(device_addr, msg_id, WRITE_MULTIPLE,
           encode_word(reg_addr) \o <<Len(values)>> \o pack_values(values))

\* error_map.get(error_type, ErrorCode.INTERNAL_ERROR) of process_request
error_map(error_type) ==
    CASE error_type = "invalid_function" -> INVALID_FUNCTION
      [] error_type = "invalid_address" -> INVALID_ADDRESS
      [] error_type = "invalid_value" -> INVALID_VALUE
      [] OTHER -> INTERNAL_ERROR

\* The state of a DeviceTab that its handlers read and write.
DeviceState ==
    [device_address  |-> device_own_address,
     register_map    |-> device_register_map,
     simulate_errors |-> device_simulate_errors,
     error_type      |-> device_error_type,
     request_count   |-> device_request_count,
     response_count  |-> device_response_count,
     error_count     |-> device_error_count,
     port_open       |-> device_port_open,
     sent            |-> <<>>]

\* An error response of process_request: error_count += 1.
error_result(s, packet, error_code) ==
    [s |-> [s EXCEPT !.error_count = @ + 1],
     response |-> error_response(s.device_address, packet.message_id,
                                 packet.function_code, error_code)]

\* if self.simulate_errors.get() and self.error_type.get() != "none"
simulation_armed_never(s) == FALSE
simulation_armed(s) == s.simulate_errors /\ s.error_type # "none"

\* DeviceTab.process_request: the state it leaves and the response.
process_request(s, packet, parsed) ==
    LET func == packet.function_code
        msg == packet.message_id
    IN  IF simulation_armed(s)
        THEN error_result(s, packet, error_map(s.error_type))
        ELSE IF func = READ_SINGLE
        THEN LET addr == parsed.register_address
                 value == read(s.register_map, addr)
             IN  IF value # None
                 THEN [s |-> s,
                       response |-> read_single_response(s.device_address, msg,
                                                         addr, value[1])]
                 ELSE error_result(s, packet, INVALID_ADDRESS)
        ELSE IF func = WRITE_SINGLE
        THEN LET addr == parsed.register_address
                 value == parsed.register_value
                 w == write(s.register_map, addr, value)
             IN  IF w.ok
                 THEN [s |-> [s EXCEPT !.register_map = w.map],
                       response |-> write_single_response(s.device_address, msg,
                                                          addr, value)]
                 ELSE error_result(s, packet, INVALID_ADDRESS)
        ELSE IF func = READ_MULTIPLE
        THEN LET addr == parsed.register_address
                 values == read_multiple(s.register_map, addr, parsed.count)
             IN  IF values # None
                 THEN [s |-> s,
                       response |-> read_multiple_response(s.device_address, msg,
                                                           addr, values[1])]
                 ELSE error_result(s, packet, INVALID_ADDRESS)
        ELSE IF func = WRITE_MULTIPLE
        THEN LET addr == parsed.register_address
                 values == parsed.values
                 w == write_multiple(s.register_map, addr, values)
             IN  IF w.ok
                 THEN [s |-> [s EXCEPT !.register_map = w.map],
                       response |-> write_multiple_response(s.device_address, msg,
                                                            addr, Len(values))]
                 ELSE error_result(s, packet, INVALID_ADDRESS)
        ELSE error_result(s, packet, INVALID_FUNCTION)

\* DeviceTab.send_response: nothing without an open port; to_bytes raising
\* is caught and logged; otherwise the bytes are written and counted.
send_response(s, response) ==
    IF ~s.port_open THEN s
    ELSE IF to_bytes_raises(response) THEN s
    ELSE [s EXCEPT !.response_count = @ + 1,
                   !.sent = Append(@, to_bytes(response))]

\* should_process = (packet.device_address == self.device_address or
\*                   packet.device_address == 0)
should_process_any(device_address, packet) == TRUE
should_process_at(device_address, packet) ==
    \/ packet.device_address = device_address
    \/ packet.device_address = 0

\* if packet.device_address != 0: the response is sent
is_answered_always(packet) == TRUE
is_answered(packet) == packet.device_address # 0

\* DeviceTab.handle_request
handle_request(s, packet) ==
    LET counted == [s EXCEPT !.request_count = @ + 1]
        parsed == parse_request(packet)
    IN  IF parsed = None THEN counted
        ELSE IF should_process_at(s.device_address, packet)
        THEN LET r == process_request(counted, packet, parsed[1])
             IN  IF is_answered(packet)
                 THEN send_response(r.s, r.response)
                 ELSE r.s
        ELSE counted

RECURSIVE handle_requests(_, _)
handle_requests(s, packets) ==
    IF packets = <<>> THEN s
    ELSE handle_requests(handle_request(s, Head(packets)), Tail(packets))

\* Writes <<address, value>> in order, each through RegisterMap.write; with
\* stop, the first write that fails ends the loop. A register ends with the
\* value of the last accepted write to it.
write_each(map, writes, stop) ==
    LET refused == {i \in 1..Len(writes) :
                       ~write_accepts(map, writes[i][1], writes[i][2])}
        made == IF stop /\ refused # {}
                THEN (CHOOSE i \in refused : \A j \in refused : i <= j) - 1
                ELSE Len(writes)
        stored == {i \in 1..made : i \notin refused}
        last == [a \in {writes[i][1] : i \in stored} |->
                    CHOOSE i \in stored :
                        /\ writes[i][1] = a
                        /\ \A j \in stored : writes[j][1] = a => j <= i]
    IN  [map EXCEPT !.registers =
            [k \in 1..Len(map.registers) |->
                IF k - 1 \in DOMAIN last THEN writes[last[k - 1]][2]
                ELSE map.registers[k]]]

\* DeviceTab.resize_register_map: a new map, then write(i, value) for the
\* old values that fit; each write goes to its own address i, and stores
\* the value when write accepts it.
resize_register_map(map, new_size) ==
    IF new_size = map.size THEN map
    ELSE LET old_values == PySlice(map.registers, 0, new_size)
             new_map == RegisterMap(new_size)
         IN  [new_map EXCEPT !.registers =
                 [k \in 1..Len(new_map.registers) |->
                     IF k <= Len(old_values)
                        /\ write_accepts(new_map, k - 1, old_values[k])
                     THEN old_values[k] ELSE 0]]

\* DeviceTab.load_test_pattern: ((i & 0xFF) << 8) | ((i * 0x11) & 0xFF) for
\* the first 16 registers, then four fixed values.
load_test_pattern(map) ==
    LET n == Min(16, map.size)
        first == [k \in 1..n |->
                     <<k - 1, ((k - 1) % 256) * 256 + (((k - 1) * 17) % 256)>>]
        fixed == IF map.size > 16
                 THEN <<<<16, 4660>>, <<17, 43981>>, <<18, 21845>>,
                        <<19, 43690>>>>
                 ELSE <<>>
    IN  write_each(map, first \o fixed, FALSE)

\* DeviceTab.set_multiple_registers(start_addr, count, value)
set_multiple_registers(map, start_addr, count, value) ==
    IF start_addr + count > map.size THEN map
    ELSE write_each(map, [i \in 1..count |-> <<start_addr + i - 1, value>>],
                    TRUE)

MaxSessionOps == 3

DeviceAddresses == {1, 5}                  \* the address spinbox: 1..247
DeviceSizes == {16, 272}                   \* the size spinbox: 16..1024
DeviceErrorTypes ==
    {"none", "invalid_function", "invalid_address", "invalid_value",
     "internal_error"}

\* Multiple reads and writes to device 1 with the count at and beyond the
\* ends of 1..255 and of what a response packet can carry.
DeviceCountRequests ==
    {read_multiple_request(1, 23, 0, 0),
     read_multiple_request(1, 24, 0, 125),
     read_multiple_request(1, 25, 0, 126),
     read_multiple_request(1, 26, 1, 255),
     write_multiple_request(1, 27, 0, <<>>)}

\* A read of one register, and a write-multiple request whose count byte
\* (3) is larger than the number of values its data carries (2).
DeviceValueRequests ==
    {read_single_request(1, 28, 1),
     Packet(1, 29, WRITE_MULTIPLE, <<0, 1, 3, 170, 170, 0, 1>>)}

\* Requests to the device: to this device, to another one and broadcast;
\* reads and writes inside and outside the map, and a function code the
\* device does not support.
DeviceRequests ==
    UNION {{write_single_request(a, 16, 16, 4660),
            write_single_request(a, 17, 256, 1),
            read_multiple_request(a, 19, 15, 2),
            write_multiple_request(a, 20, 1, <<43690, 1>>),
            Packet(a, 21, 5, <<0, 16>>)} : a \in {0, 1, 5}}
    \cup DeviceCountRequests
    \cup DeviceValueRequests

\* What the fields of "Set" and of the multi-register "Set" hold.
DeviceSetInputs == {<<16, 21845>>, <<272, 21845>>, <<16, 65536>>}
DeviceSetMultipleInputs ==
    {<<-1, 3, 43690>>, <<14, 3, 43690>>, <<14, 3, 65536>>}

DeviceTabInit ==
    /\ device_own_address = DEVICE_ADDRESS
    /\ device_register_map = RegisterMap(DEVICE_MAP_SIZE)
    /\ device_simulate_errors = FALSE
    /\ device_error_type = "none"
    /\ device_response_count = 0
    /\ device_error_count = 0
    /\ device_event = [kind |-> "init"]

NoSession == session_tab = "none" /\ session_ops = 0

\* One more operation of the device session.
DeviceOp ==
    /\ session_tab = "device"
    /\ session_ops < MaxSessionOps
    /\ session_ops' = session_ops + 1
    /\ UNCHANGED <<session_tab, deviceTabOthers>>

\* What a button or field of the tab leaves alone.
deviceQuiet ==
    <<deviceVars, device_response_count, device_error_count, device_port_open>>

\* handle_raw_data(data) with the bytes of one request, which the read
\* thread of the main window read from the open port; the port is taken to
\* be still open when the response is written.
DeviceHandleRawData ==
    /\ DeviceOp
    /\ device_port_open
    /\ \E request \in DeviceRequests :
          LET r == process_buffer(device_request_buffer \o to_bytes(request))
              s == handle_requests(DeviceState, r.packets)
          IN  /\ device_request_buffer' = r.buffer
              /\ device_request_count' = s.request_count
              /\ device_register_map' = s.register_map
              /\ device_response_count' = s.response_count
              /\ device_error_count' = s.error_count
              /\ device_event' = [kind |-> "handle_raw_data",
                                  packets |-> r.packets,
                                  sent |-> s.sent]
    /\ UNCHANGED <<device_handled, device_own_address, device_simulate_errors,
                   device_error_type, device_port_open>>

\* The serial port of the main window is opened or closed.
DevicePortToggles ==
    /\ DeviceOp
    /\ device_port_open' = ~device_port_open
    /\ device_event' = [kind |-> "port"]
    /\ UNCHANGED <<deviceVars, device_own_address, device_register_map,
                   device_simulate_errors, device_error_type,
                   device_response_count, device_error_count>>

DeviceUpdateAddress ==
    /\ DeviceOp
    /\ device_own_address' \in DeviceAddresses \ {device_own_address}
    /\ device_event' = [kind |-> "update_device_address"]
    /\ UNCHANGED <<deviceQuiet, device_register_map, device_simulate_errors,
                   device_error_type>>

\* The "Enable Errors" checkbox: the variable flips, then toggle_error_radios.
DeviceToggleErrorRadios ==
    /\ DeviceOp
    /\ device_simulate_errors' = ~device_simulate_errors
    /\ device_error_type' =
           IF device_simulate_errors' THEN device_error_type ELSE "none"
    /\ device_event' = [kind |-> "toggle_error_radios"]
    /\ UNCHANGED <<deviceQuiet, device_own_address, device_register_map>>

\* A radio button of the error types; they are disabled while the checkbox
\* is off.
DeviceSelectErrorType ==
    /\ DeviceOp
    /\ device_simulate_errors
    /\ device_error_type' \in DeviceErrorTypes \ {device_error_type}
    /\ device_event' = [kind |-> "error_type"]
    /\ UNCHANGED <<deviceQuiet, device_own_address, device_register_map,
                   device_simulate_errors>>

\* What a button that edits the register map leaves alone.
DeviceEdited(kind) ==
    /\ device_event' = [kind |-> kind]
    /\ UNCHANGED <<deviceQuiet, device_own_address, device_simulate_errors,
                   device_error_type>>

DeviceResizeRegisterMap ==
    /\ DeviceOp
    /\ \E new_size \in DeviceSizes :
          device_register_map' =
              resize_register_map(device_register_map, new_size)
    /\ DeviceEdited("resize_register_map")

DeviceClearRegisters ==
    /\ DeviceOp
    /\ device_register_map' = clear(device_register_map)
    /\ DeviceEdited("clear_registers")

DeviceLoadTestPattern ==
    /\ DeviceOp
    /\ device_register_map' = load_test_pattern(device_register_map)
    /\ DeviceEdited("load_test_pattern")

\* set_register: address and value are whatever hexadecimal numbers the
\* two fields hold.
DeviceSetRegister ==
    /\ DeviceOp
    /\ \E input \in DeviceSetInputs :
          device_register_map' = write(device_register_map, input[1], input[2]).map
    /\ DeviceEdited("set_register")

DeviceSetMultipleRegisters ==
    /\ DeviceOp
    /\ \E input \in DeviceSetMultipleInputs :
          device_register_map' =
              set_multiple_registers(device_register_map, input[1], input[2],
                                     input[3])
    /\ DeviceEdited("set_multiple_registers")

(***************************************************************************)
(* modbus_tcp_slave_tab.py: the slave session. client_worker receives the  *)
(* bytes of a request, process_modbus_request executes it on the register  *)
(* map, and the bytes it returns are sent to the client. The handlers of   *)
(* the worker thread and of the buttons are taken one at a time.           *)
(***************************************************************************)

\* The state of a ModbusTCPSlaveTab that its handlers read and write.
SlaveState ==
    [register_map    |-> slave_register_map,
     simulate_errors |-> slave_simulate_errors,
     error_type      |-> slave_error_type,
     request_count   |-> slave_request_count,
     response_count  |-> slave_response_count,
     error_count     |-> slave_error_count]

\* except Exception of process_modbus_request: error_count += 1; return None
process_error(s) == [s |-> [s EXCEPT !.error_count = @ + 1], response |-> None]

\* response.to_bytes() as the last statement of a branch; struct.error is
\* caught by process_modbus_request.
frame_returned(s, response) ==
    IF frame_to_bytes_raises(response) THEN process_error(s)
    ELSE [s |-> s, response |-> Some(frame_to_bytes(response))]

\* the if/elif chain of generate_error_response; 0 stands for "return None"
exception_code_of(error_type) ==
    CASE error_type = "illegal_function" -> 1
      [] error_type = "illegal_address" -> 2
      [] error_type = "illegal_value" -> 3
      [] error_type = "device_failure" -> 4
      [] OTHER -> 0

\* ModbusTCPSlaveTab.generate_error_response
generate_error_response(s, request) ==
    LET exception_code == exception_code_of(s.error_type)
    IN  IF exception_code = 0 THEN [s |-> s, response |-> None]
        ELSE frame_returned([s EXCEPT !.error_count = @ + 1],
                 exception_response(request.transaction_id, request.unit_id,
                                    request.function_code, exception_code))

\* ModbusTCPSlaveTab.generate_illegal_function_response
generate_no_response(s, request) == [s |-> s, response |-> None]
generate_illegal_function_response(s, request) ==
    frame_returned([s EXCEPT !.error_count = @ + 1],
        exception_response(request.transaction_id, request.unit_id,
                           request.function_code, 1))

\* if self.simulate_errors.get() and self.error_type.get() != "none"
slave_simulation_armed(s) == s.simulate_errors /\ s.error_type # "none"

\* ModbusTCPSlaveTab.process_modbus_request: the state it leaves and the
\* bytes it returns (None: nothing is sent).
process_modbus_request(s0, data) ==
    LET decoded == frame_from_bytes(data)
    IN  IF decoded = None THEN [s |-> s0, response |-> None]
        ELSE
        LET request == decoded[1]
            s == [s0 EXCEPT !.request_count = @ + 1]
            read_parsed == parse_read_holding_registers_request(request)
            write_parsed == parse_write_multiple_registers_request(request)
        IN  IF slave_simulation_armed(s)
            THEN generate_error_response(s, request)
            ELSE IF request.function_code = READ_HOLDING_REGISTERS
                    /\ read_parsed # None
            THEN LET values == read_registers(s.register_map,
                                              read_parsed[1].start_address,
                                              read_parsed[1].count)
                 IN  \* len(None) in the builder raises TypeError
                     IF values = None THEN process_error(s)
                     ELSE frame_returned(
                              [s EXCEPT !.response_count = @ + 1],
                              read_holding_registers_response(
                                  request.transaction_id, request.unit_id,
                                  values[1]))
            ELSE IF request.function_code = WRITE_MULTIPLE_REGISTERS
                    /\ write_parsed # None
            THEN LET w == write_registers(s.register_map,
                                          write_parsed[1].start_address,
                                          write_parsed[1].values)
                 IN  \* what write_registers returned is not looked at
                     frame_returned(
                         [s EXCEPT !.register_map = w.map,
                                   !.response_count = @ + 1],
                         write_multiple_registers_response(
                             request.transaction_id, request.unit_id,
                             write_parsed[1].start_address,
                             Len(write_parsed[1].values)))
            ELSE generate_illegal_function_response(s, request)

SLAVE_ADDRESS_LIMIT == 999     \* if addr > 999 of set_register_value

\* ModbusTCPSlaveTab.set_register_value
set_register_value(map, addr, value) ==
    IF addr > SLAVE_ADDRESS_LIMIT THEN map
    ELSE IF value > 65535 THEN map
    ELSE set_register(map, addr, value).map

\* for i in range(1000): self.register_map.set_register(i, 0)
clear_all_registers(map) ==
    [map EXCEPT !.registers =
        [k \in 1..Len(map.registers) |->
            IF k - 1 < 1000 /\ set_register_accepts(map, k - 1, 0) THEN 0
            ELSE map.registers[k]]]

\* The set_register calls of ModbusTCPSlaveTab.load_test_pattern after its
\* clearing loop, in order.
slave_test_pattern ==
    <<<<0, 4660>>, <<1, 22136>>, <<2, 39612>>, <<3, 57072>>,
      <<4, 20480>>, <<5, 258>>, <<6, 1>>,
      <<7, 1>>, <<8, 2>>, <<9, 3>>, <<10, 8228>>, <<11, 2065>>, <<12, 4660>>>>
    \o [ch \in 1..10 |-> <<13 + (ch - 1), 5000>>]
    \o <<<<23, 350>>, <<24, 1200>>, <<25, 1300>>>>
    \o [n \in 1..30 |->
          LET ch == (n - 1) \div 3
              base_addr == 26 + ch * 3
          IN  CASE (n - 1) % 3 = 0 -> <<base_addr, 1000 + ch * 100>>
                [] (n - 1) % 3 = 1 -> <<base_addr + 1, 12000 + ch * 100>>
                [] OTHER -> <<base_addr + 2, IF ch < 5 THEN 1 ELSE 0>>]
    \o [i \in 1..10 |-> <<56 + (i - 1), 500 + (i - 1) * 50>>]
    \o [ch \in 1..10 |-> <<66 + (ch - 1), 2000 + (ch - 1) * 100>>]
    \o [ch \in 1..10 |-> <<76 + (ch - 1), IF ch - 1 < 5 THEN 1 ELSE 0>>]
    \o <<<<86, 0>>, <<87, 0>>, <<88, 0>>, <<89, 0>>, <<90, 0>>, <<91, 0>>,
         <<92, 1>>, <<93, 0>>, <<107, 0>>, <<108, 0>>, <<110, 0>>,
         <<112, 0>>, <<114, 0>>, <<116, 0>>, <<117, 42>>, <<118, 3600>>,
         <<119, 86400>>, <<120, 0>>, <<121, 1>>, <<122, 0>>, <<123, 0>>,
         <<124, 0>>>>
    \o [n \in 1..20 |->
          <<125 + (n - 1), IF (n - 1) % 2 = 0 THEN 16384 ELSE 0>>]
    \o [n \in 1..20 |->
          <<145 + (n - 1), IF (n - 1) % 2 = 0 THEN 10 + (n - 1) \div 2 ELSE 0>>]
    \o [i \in 1..11 |-> <<165 + (i - 1), (i - 1) * 1000>>]
    \o [i \in 1..11 |-> <<176 + (i - 1), (i - 1) * 1000>>]

\* What the calls of slave_test_pattern store: for each address, the value
\* of the last call whose value set_register accepts.
slave_pattern_stored ==
    LET valid == {i \in 1..Len(slave_test_pattern) :
                     /\ 0 <= slave_test_pattern[i][2]
                     /\ slave_test_pattern[i][2] <= 65535}
    IN  [a \in {slave_test_pattern[i][1] : i \in valid} |->
            slave_test_pattern[
                CHOOSE i \in valid :
                    /\ slave_test_pattern[i][1] = a
                    /\ \A j \in valid :
                           slave_test_pattern[j][1] = a => j <= i][2]]

\* ModbusTCPSlaveTab.load_test_pattern: the clearing loop, then the calls
\* of slave_test_pattern, each storing where the address is in the map.
slave_load_test_pattern(map) ==
    LET cleared == clear_all_registers(map)
    IN  [cleared EXCEPT !.registers =
            [k \in 1..Len(cleared.registers) |->
                IF k - 1 \in DOMAIN slave_pattern_stored
                THEN slave_pattern_stored[k - 1]
                ELSE cleared.registers[k]]]

SlaveErrorTypes ==
    {"none", "illegal_function", "illegal_address", "illegal_value",
     "device_failure"}

\* What a client sends: reads and writes inside and outside the map, a
\* function code the slave does not support, and bytes that are no frame.
SlaveRequests ==
    {frame_to_bytes(read_holding_registers_request(1, 1, 0, 2)),
     frame_to_bytes(read_holding_registers_request(2, 1, 999, 2)),
     frame_to_bytes(write_multiple_registers_request(3, 1, 998,
                                                     <<4660, 65535>>)),
     frame_to_bytes(write_multiple_registers_request(4, 7, 999, <<1, 2>>)),
     frame_to_bytes(ModbusTCPFrame(5, 0, 6, 255, 5, <<0, 16, 255, 0>>)),
     frame_to_bytes(ModbusTCPFrame(6, 1, 6, 1, 3, <<0, 0, 0, 1>>))}

\* What the address and value fields of "Set" hold.
SlaveSetInputs == {<<999, 43690>>, <<1000, 1>>, <<0, 65536>>, <<-1, 1>>}

SlaveTabInit ==
    /\ slave_register_map = ModbusRegisterMap(DEFAULT_MODBUS_MAP_SIZE)
    /\ slave_simulate_errors = FALSE
    /\ slave_error_type = "none"
    /\ slave_request_count = 0
    /\ slave_response_count = 0
    /\ slave_error_count = 0
    /\ slave_event = [kind |-> "init"]

\* One more operation of the slave session.
SlaveOp ==
    /\ session_tab = "modbus_slave"
    /\ session_ops < MaxSessionOps
    /\ session_ops' = session_ops + 1
    /\ UNCHANGED <<session_tab, slaveTabOthers>>

slaveCounters ==
    <<slave_request_count, slave_response_count, slave_error_count>>

\* One pass of the loop of client_worker: recv, process_modbus_request, send
SlaveClientWorker ==
    /\ SlaveOp
    /\ \E data \in SlaveRequests :
          LET r == process_modbus_request(SlaveState, data)
          IN  /\ slave_register_map' = r.s.register_map
              /\ slave_request_count' = r.s.request_count
              /\ slave_response_count' = r.s.response_count
              /\ slave_error_count' = r.s.error_count
              /\ slave_event' = [kind |-> "client_worker",
                                 data |-> data,
                                 sent |-> r.response]
    /\ UNCHANGED <<slave_simulate_errors, slave_error_type>>

\* The "Simulate Errors" checkbox: the variable flips, then
\* toggle_error_options.
SlaveToggleErrorOptions ==
    /\ SlaveOp
    /\ slave_simulate_errors' = ~slave_simulate_errors
    /\ slave_error_type' =
           IF slave_simulate_errors' THEN slave_error_type ELSE "none"
    /\ slave_event' = [kind |-> "toggle_error_options"]
    /\ UNCHANGED <<slave_register_map, slaveCounters>>

\* A radio button of the error types; they are disabled while the checkbox
\* is off.
SlaveSelectErrorType ==
    /\ SlaveOp
    /\ slave_simulate_errors
    /\ slave_error_type' \in SlaveErrorTypes \ {slave_error_type}
    /\ slave_event' = [kind |-> "error_type"]
    /\ UNCHANGED <<slave_register_map, slave_simulate_errors, slaveCounters>>

\* No request is between the test of the simulation settings and
\* generate_error_response.
SlaveCallInit == slave_call = None

\* What the steps of the worker thread leave alone.
slaveCallOthers == <<firstVars, decodeVars, regmapVars, deviceTabVars,
                     serverVars, guiVars, callVars, connVars>>

\* The worker thread in process_modbus_request, up to the test of the
\* simulation settings. The worker reads the Tk variables simulate_errors
\* and error_type through the main thread, which serves other events
\* between two reads. With the simulation armed, generate_error_response
\* reads error_type once more; otherwise the request is executed.
SlaveWorkerTestsSimulation ==
    /\ slave_call = None
    /\ session_tab = "modbus_slave"
    /\ session_ops < MaxSessionOps
    /\ session_ops' = session_ops + 1
    /\ \E data \in SlaveRequests :
          LET decoded == frame_from_bytes(data)
              r == process_modbus_request(SlaveState, data)
          IN  IF decoded # None /\ slave_simulation_armed(SlaveState)
              THEN /\ slave_request_count' = slave_request_count + 1
                   /\ slave_call' = Some(decoded[1])
                   /\ slave_event' = [kind |-> "simulation_test",
                                      data |-> data]
                   /\ UNCHANGED <<slave_register_map, slave_response_count,
                                  slave_error_count>>
              ELSE /\ slave_register_map' = r.s.register_map
                   /\ slave_request_count' = r.s.request_count
                   /\ slave_response_count' = r.s.response_count
                   /\ slave_error_count' = r.s.error_count
                   /\ slave_event' = [kind |-> "client_worker",
                                      data |-> data,
                                      sent |-> r.response]
                   /\ UNCHANGED slave_call
    /\ UNCHANGED <<session_tab, slave_simulate_errors, slave_error_type,
                   slaveCallOthers>>

\* return self.generate_error_response(request), with error_type as it is
\* by now; what it returns is sent to the client.
SlaveWorkerGeneratesError ==
    /\ slave_call # None
    /\ LET r == generate_error_response(SlaveState, slave_call[1])
       IN  /\ slave_error_count' = r.s.error_count
           /\ slave_event' = [kind |-> "generate_error_response",
                              sent |-> r.response]
    /\ slave_call' = None
    /\ UNCHANGED <<sessionVars, slave_register_map, slave_simulate_errors,
                   slave_error_type, slave_request_count,
                   slave_response_count, slaveCallOthers>>

\* What a button that edits the register map leaves alone.
SlaveEdited(kind) ==
    /\ slave_event' = [kind |-> kind]
    /\ UNCHANGED <<slave_simulate_errors, slave_error_type, slaveCounters>>

SlaveSetRegisterValue ==
    /\ SlaveOp
    /\ \E input \in SlaveSetInputs :
          slave_register_map' =
              set_register_value(slave_register_map, input[1], input[2])
    /\ SlaveEdited("set_register_value")

SlaveClearAllRegisters ==
    /\ SlaveOp
    /\ slave_register_map' = clear_all_registers(slave_register_map)
    /\ SlaveEdited("clear_all_registers")

SlaveLoadTestPattern ==
    /\ SlaveOp
    /\ slave_register_map' = slave_load_test_pattern(slave_register_map)
    /\ SlaveEdited("load_test_pattern")

(***************************************************************************)
(* ModbusTCPSlaveTab: start_server, stop_server and the threads they start. *)
(* A thread is at one of the places where it reads what others write: the   *)
(* test of its loop, or the socket call it blocks in.                       *)
(***************************************************************************)

MaxStarts == 2             \* start_server calls
MaxClients == 2            \* connections clients open
MaxServerRequests == 2     \* requests the clients send

\* What a client of the running server sends: a write and a read.
ServerRequests ==
    {frame_to_bytes(write_multiple_registers_request(1, 1, 0, <<4660>>)),
     frame_to_bytes(read_holding_registers_request(2, 1, 0, 1))}

\* The state after ModbusTCPSlaveTab.__init__: no server, no thread.
ServerInit ==
    /\ srv_is_running = FALSE
    /\ srv_is_connected = FALSE
    /\ srv_client_socket = 0
    /\ srv_server_socket = 0
    /\ srv_connection_count = 0
    /\ srv_server_workers = [w \in 1..MaxStarts |-> [pc |-> "unborn", socket |-> 0]]
    /\ srv_client_workers =
           [c \in 1..MaxClients |-> [pc |-> "unborn", bytes_received |-> FALSE]]
    /\ srv_connections = [c \in 1..MaxClients |-> "none"]
    /\ srv_requests = 0

serverFlags == <<srv_is_running, srv_is_connected, srv_client_socket,
                 srv_server_socket>>

slaveUntouched == <<slave_register_map, slave_simulate_errors,
                    slave_error_type, slaveCounters, slave_event>>

\* Connections waiting in the backlog of the listening socket.
Backlog == {c \in 1..MaxClients : srv_connections[c] = "backlog"}

\* start_server: a listening socket, is_running, a server_worker thread, and
\* the test pattern when "auto load" is checked.
SlaveStartServer ==
    \E auto_load_pattern \in BOOLEAN :
        /\ ~srv_is_running
        /\ \E w \in 1..MaxStarts :
              /\ srv_server_workers[w].pc = "unborn"
              /\ \A v \in 1..(w - 1) : srv_server_workers[v].pc # "unborn"
              /\ srv_server_socket' = w
              /\ srv_server_workers' =
                     [srv_server_workers EXCEPT ![w] = [pc |-> "loop", socket |-> 0]]
        /\ srv_is_running' = TRUE
        /\ slave_register_map' =
               IF auto_load_pattern
               THEN slave_load_test_pattern(slave_register_map)
               ELSE slave_register_map
        /\ UNCHANGED <<srv_is_connected, srv_client_socket,
                       srv_connection_count, srv_client_workers,
                       srv_connections, srv_requests>>
        /\ UNCHANGED <<slave_simulate_errors, slave_error_type, slaveCounters,
                       slave_event, serverOthers>>

\* stop_server: both flags cleared, the client socket and the server socket
\* closed and forgotten. Connections still in the backlog are refused.
SlaveStopServer ==
    /\ srv_is_running
    /\ srv_is_running' = FALSE
    /\ srv_is_connected' = FALSE
    /\ srv_client_socket' = 0
    /\ srv_server_socket' = 0
    /\ srv_connections' =
           [c \in 1..MaxClients |->
               IF c = srv_client_socket THEN "closed"
               ELSE IF srv_connections[c] = "backlog" THEN "refused"
               ELSE srv_connections[c]]
    /\ UNCHANGED <<srv_connection_count, srv_server_workers,
                   srv_client_workers, srv_requests>>
    /\ UNCHANGED <<slaveUntouched, serverOthers>>

\* A client connects to the listening socket.
ClientConnects ==
    \E c \in 1..MaxClients :
        /\ srv_server_socket # 0
        /\ srv_connections[c] = "none"
        /\ \A b \in 1..(c - 1) : srv_connections[b] # "none"
        /\ srv_connections' = [srv_connections EXCEPT ![c] = "backlog"]
        /\ UNCHANGED <<serverFlags, srv_connection_count, srv_server_workers,
                       srv_client_workers, srv_requests>>
        /\ UNCHANGED <<slaveUntouched, serverOthers>>

\* A client closes its connection, or the connection is reset.
ClientCloses ==
    \E c \in 1..MaxClients, how \in {"peer_closed", "peer_reset"} :
        /\ srv_connections[c] = "open"
        /\ srv_connections' = [srv_connections EXCEPT ![c] = how]
        /\ UNCHANGED <<serverFlags, srv_connection_count, srv_server_workers,
                       srv_client_workers, srv_requests>>
        /\ UNCHANGED <<slaveUntouched, serverOthers>>

\* server_worker at "while self.is_running": the loop is left when the flag
\* is clear or there is no server socket; else accept is called on it.
ServerWorkerLoop(w) ==
    /\ srv_server_workers[w].pc = "loop"
    /\ srv_server_workers' =
           [srv_server_workers EXCEPT ![w] =
               IF srv_is_running /\ srv_server_socket # 0
               THEN [pc |-> "accept", socket |-> srv_server_socket]
               ELSE [pc |-> "done", socket |-> 0]]
    /\ UNCHANGED <<serverFlags, srv_connection_count, srv_client_workers,
                   srv_connections, srv_requests>>
    /\ UNCHANGED <<slaveUntouched, serverOthers>>

\* server_worker in accept, a connection waiting: client_socket and
\* is_connected are set under the lock, the connection counted and a
\* client_worker thread started for it.
ServerWorkerAccepts(w) ==
    /\ srv_server_workers[w].pc = "accept"
    /\ srv_server_workers[w].socket = srv_server_socket
    /\ Backlog # {}
    /\ LET c == CHOOSE b \in Backlog : \A a \in Backlog : b <= a
       IN  /\ srv_client_socket' = c
           /\ srv_is_connected' = TRUE
           /\ srv_connection_count' = srv_connection_count + 1
           /\ srv_connections' = [srv_connections EXCEPT ![c] = "open"]
           /\ srv_client_workers' =
                  [srv_client_workers EXCEPT
                      ![c] = [pc |-> "loop", bytes_received |-> FALSE]]
    /\ srv_server_workers' =
           [srv_server_workers EXCEPT ![w] = [pc |-> "loop", socket |-> 0]]
    /\ UNCHANGED <<srv_is_running, srv_server_socket, srv_requests>>
    /\ UNCHANGED <<slaveUntouched, serverOthers>>

\* server_worker in accept, no connection: socket.timeout after 1 s and
\* "continue"; on a socket that stop_server closed the call times out or
\* raises, whichever the platform does, and an exception ends the loop.
ServerWorkerAcceptFails(w) ==
    \E raised \in BOOLEAN :
        /\ srv_server_workers[w].pc = "accept"
        /\ raised => srv_server_workers[w].socket # srv_server_socket
        /\ srv_server_workers' =
               [srv_server_workers EXCEPT ![w] =
                   [pc |-> IF raised THEN "done" ELSE "loop", socket |-> 0]]
        /\ UNCHANGED <<serverFlags, srv_connection_count, srv_client_workers,
                       srv_connections, srv_requests>>
        /\ UNCHANGED <<slaveUntouched, serverOthers>>

\* client_worker at "while self.is_running and self.is_connected"
ClientWorkerLoop(c) ==
    /\ srv_client_workers[c].pc = "loop"
    /\ srv_client_workers' =
           [srv_client_workers EXCEPT ![c].pc =
               IF srv_is_running /\ srv_is_connected THEN "recv" ELSE "finally"]
    /\ UNCHANGED <<serverFlags, srv_connection_count, srv_server_workers,
                   srv_connections, srv_requests>>
    /\ UNCHANGED <<slaveUntouched, serverOthers>>

\* client_worker in recv, data arriving: process_modbus_request, and the
\* response, if there is one, sent.
ClientWorkerReceives(c) ==
    \E data \in ServerRequests :
        /\ srv_client_workers[c].pc = "recv"
        /\ srv_connections[c] = "open"
        /\ srv_requests < MaxServerRequests
        /\ srv_requests' = srv_requests + 1
        /\ LET r == process_modbus_request(SlaveState, data)
           IN  /\ slave_register_map' = r.s.register_map
               /\ slave_request_count' = r.s.request_count
               /\ slave_response_count' = r.s.response_count
               /\ slave_error_count' = r.s.error_count
               /\ slave_event' = [kind |-> "client_worker", data |-> data,
                                  sent |-> r.response]
        /\ srv_client_workers' =
               [srv_client_workers EXCEPT
                   ![c] = [pc |-> "loop", bytes_received |-> TRUE]]
        /\ UNCHANGED <<serverFlags, srv_connection_count, srv_server_workers,
                       srv_connections>>
        /\ UNCHANGED <<slave_simulate_errors, slave_error_type, serverOthers>>

\* client_worker in recv, no data: socket.timeout ends the loop when nothing
\* was received yet and continues it otherwise; an empty read (the client
\* closed), a reset, or a socket closed by stop_server ends the loop.
ClientWorkerRecvFails(c) ==
    \E timeout \in BOOLEAN :
        /\ srv_client_workers[c].pc = "recv"
        /\ ~timeout => srv_connections[c] # "open"
        /\ srv_client_workers' =
               [srv_client_workers EXCEPT ![c].pc =
                   IF timeout /\ srv_client_workers[c].bytes_received
                   THEN "loop" ELSE "finally"]
        /\ UNCHANGED <<serverFlags, srv_connection_count, srv_server_workers,
                       srv_connections, srv_requests>>
        /\ UNCHANGED <<slaveUntouched, serverOthers>>

\* client_worker in "finally": its socket is closed, and client_socket and
\* is_connected are cleared under the lock if client_socket is its socket.
ClientWorkerFinally(c) ==
    /\ srv_client_workers[c].pc = "finally"
    /\ srv_connections' = [srv_connections EXCEPT ![c] = "closed"]
    /\ srv_client_socket' = IF srv_client_socket = c THEN 0 ELSE srv_client_socket
    /\ srv_is_connected' =
           IF srv_client_socket = c THEN FALSE ELSE srv_is_connected
    /\ srv_client_workers' = [srv_client_workers EXCEPT ![c].pc = "done"]
    /\ UNCHANGED <<srv_is_running, srv_server_socket, srv_connection_count,
                   srv_server_workers, srv_requests>>
    /\ UNCHANGED <<slaveUntouched, serverOthers>>

ServerWorkerStep(w) ==
    \/ ServerWorkerLoop(w)
    \/ ServerWorkerAccepts(w)
    \/ ServerWorkerAcceptFails(w)

ClientWorkerStep(c) ==
    \/ ClientWorkerLoop(c)
    \/ ClientWorkerReceives(c)
    \/ ClientWorkerRecvFails(c)
    \/ ClientWorkerFinally(c)

(***************************************************************************)
(* SerialGUI: connect_serial, disconnect_serial and the read thread         *)
(* (serial_gui.py), the thread started as test_thread_termination.py does.  *)
(***************************************************************************)

MaxReadThreads == 2        \* read threads started

\* The state after SerialGUI.__init__.
GuiInit ==
    /\ gui_running = FALSE
    /\ gui_is_connected = FALSE
    /\ gui_serial_port = "none"
    /\ gui_read_thread = 0
    /\ gui_threads = [t \in 1..MaxReadThreads |-> "unborn"]
    /\ gui_event = [kind |-> "init"]

guiTabs == <<deviceVars, hostVars>>

\* connect_serial: is_connected and running are set. Opening the port and
\* starting the read thread are commented out in it.
GuiConnectSerial ==
    /\ ~gui_is_connected
    /\ gui_is_connected' = TRUE
    /\ gui_running' = TRUE
    /\ gui_event' = [kind |-> "connect_serial"]
    /\ UNCHANGED <<gui_serial_port, gui_read_thread, gui_threads>>
    /\ UNCHANGED <<guiTabs, guiOthers>>

\* What test_disconnect_joins_read_thread sets up on a connected gui: an
\* open serial port, and a thread stored in read_thread and started.
GuiStartReadThread ==
    \E t \in 1..MaxReadThreads :
        /\ gui_is_connected /\ gui_running
        /\ gui_threads[t] = "unborn"
        /\ \A u \in 1..(t - 1) : gui_threads[u] # "unborn"
        /\ gui_serial_port' = "open"
        /\ gui_read_thread' = t
        /\ gui_threads' = [gui_threads EXCEPT ![t] = "loop"]
        /\ gui_event' = [kind |-> "thread_start", thread |-> t]
        /\ UNCHANGED <<gui_running, gui_is_connected>>
        /\ UNCHANGED <<guiTabs, guiOthers>>

\* read_serial_thread at "while self.running and self.serial_port"
GuiReadThreadLoop(t) ==
    /\ gui_threads[t] = "loop"
    /\ gui_threads' =
           [gui_threads EXCEPT ![t] =
               IF gui_running /\ gui_serial_port # "none" THEN "read" ELSE "done"]
    /\ gui_event' = [kind |-> "read_serial_thread", thread |-> t]
    /\ UNCHANGED <<gui_running, gui_is_connected, gui_serial_port,
                   gui_read_thread>>
    /\ UNCHANGED <<guiTabs, guiOthers>>

\* read_serial_thread in serial_port.read(4096) with data: the data go to
\* the device tab and to the host tab.
GuiReadThreadReads(t) ==
    \E data \in HostResponses :
        /\ gui_threads[t] = "read"
        /\ gui_serial_port = "open"
        /\ gui_rx < MaxGuiRx
        /\ read_serial_thread(data)
        /\ gui_rx' = gui_rx + 1
        /\ gui_threads' = [gui_threads EXCEPT ![t] = "loop"]
        /\ gui_event' = [kind |-> "read", thread |-> t]
        /\ UNCHANGED <<gui_running, gui_is_connected, gui_serial_port,
                       gui_read_thread>>
        /\ UNCHANGED guiOthers

\* read_serial_thread in serial_port.read(4096) without data: the loop goes
\* on after 5 ms; the read of a port that disconnect_serial took away
\* raises, which goes on to the loop test as well.
GuiReadThreadIdles(t) ==
    /\ gui_threads[t] = "read"
    /\ gui_threads' = [gui_threads EXCEPT ![t] = "loop"]
    /\ gui_event' = [kind |-> "read_nothing", thread |-> t]
    /\ UNCHANGED <<gui_running, gui_is_connected, gui_serial_port,
                   gui_read_thread>>
    /\ UNCHANGED <<guiTabs, guiOthers>>

\* disconnect_serial: running is cleared, the port closed and forgotten,
\* is_connected cleared; then it returns.
GuiDisconnectSerial ==
    /\ gui_is_connected
    /\ gui_running' = FALSE
    /\ gui_is_connected' = FALSE
    /\ gui_serial_port' = "none"
    /\ gui_event' = [kind |-> "disconnect_serial"]
    /\ UNCHANGED <<gui_read_thread, gui_threads>>
    /\ UNCHANGED <<guiTabs, guiOthers>>

\* ==== Specifications ====

(***************************************************************************)
(* host_tab.py: send_protocol_request, the blocking request of the         *)
(* register grid. It is called by a button of the grid, on the Tk main     *)
(* thread, and waits there on a threading.Event.                           *)
(***************************************************************************)

\* No call of send_protocol_request has been made.
HostCallInit == host_call = [pc |-> "idle"]

\* The Tk main thread is not inside send_protocol_request: callbacks and
\* timers run only then.
HostMainThreadFree == host_call.pc # "waiting"

\* HostTab.handle_response, the branch for a request that carries a
\* request_event: what it stores in response_data for the packet.
response_data(packet) ==
    LET parsed == parse_response(packet)
    IN  IF parsed = None
        THEN [success |-> FALSE,
              data |-> [message |-> "Failed to parse response"]]
        ELSE IF parsed[1].is_error
        THEN [success |-> FALSE,
              data |-> [message |-> parsed[1].error_description]]
        ELSE IF packet.function_code = READ_SINGLE_RESP
        THEN [success |-> TRUE, data |-> [value |-> parsed[1].register_value]]
        ELSE IF packet.function_code = READ_MULTIPLE_RESP
        THEN [success |-> TRUE, data |-> [values |-> parsed[1].values]]
        ELSE IF packet.function_code = WRITE_SINGLE_RESP
        THEN [success |-> TRUE,
              data |-> [address |-> parsed[1].register_address, count |-> 1]]
        ELSE IF packet.function_code = WRITE_MULTIPLE_RESP
        THEN [success |-> TRUE,
              data |-> [address |-> parsed[1].register_address,
                        count |-> parsed[1].count]]
        ELSE [success |-> FALSE, data |-> [message |-> "None"]]

\* The packets handle_response was given since the call began that carry
\* the call's message id; the first of them is the one that was matched.
HostCallAnswers ==
    SelectSeq(SubSeq(host_handled, host_call.handled_before + 1,
                     Len(host_handled)),
              LAMBDA packet : packet.message_id = host_call.message_id)

\* request_event is set: handle_response popped the call's entry.
request_event_is_set == host_call.req \in host_matched

\* The bytes of a response to the call's request were read from the host
\* tab's own port and queued behind the request's 'tx' entry.
HostCallResponseQueued ==
    \E i, j \in 1..Len(serial_data_queue) :
        /\ i < j
        /\ serial_data_queue[i] = <<"tx", host_call.request>>
        /\ serial_data_queue[j][1] = "rx"
        /\ from_bytes(serial_data_queue[j][2]) # None
        /\ from_bytes(serial_data_queue[j][2])[1].message_id
               = host_call.message_id

\* HostTab.send_protocol_request(0x01, 0) up to request_event.wait: the
\* packet is built with the current message id, the pending entry with
\* its request_event is stored, and the packet is sent. No timeout callback
\* is armed and message_id stays.
HostSendProtocolRequest ==
    /\ host_call.pc = "idle"
    /\ host_is_connected
    /\ host_requests < MaxSends
    /\ LET packet == read_single_request(HOST_DEVICE_ADDRESS, host_message_id, 0)
           n == host_requests + 1
       IN  /\ host_pending_requests' =
                  DictSet(host_pending_requests, host_message_id, n)
           /\ serial_data_queue' =
                  Append(serial_data_queue, <<"tx", to_bytes(packet)>>)
           /\ host_requests' = n
           /\ host_call' = [pc |-> "waiting", req |-> n,
                            message_id |-> host_message_id,
                            request |-> to_bytes(packet),
                            handled_before |-> Len(host_handled)]
           /\ host_event' = [kind |-> "send_protocol_request", req |-> n,
                             msg_id |-> host_message_id]
    /\ UNCHANGED <<host_is_connected, host_data_queue, host_message_id,
                   host_timers, host_response_buffer, host_handled,
                   host_matched, host_timed_out, host_rx_pending,
                   host_conn_rx, gui_rx, host_poll_tick>>
    /\ UNCHANGED callOthers

\* send_protocol_request from request_event.wait(timeout) to its return:
\* wait gives True when the event is set and the function returns what
\* handle_response stored; wait gives False after response_timeout ms, the
\* entry is deleted if it is still there and (False, "Request timeout") is
\* returned.
HostProtocolRequestReturns ==
    /\ host_call.pc = "waiting"
    /\ IF request_event_is_set
       THEN /\ host_call' =
                   [pc |-> "returned", req |-> host_call.req,
                    message_id |-> host_call.message_id,
                    result |-> response_data(Head(HostCallAnswers)),
                    arrived |-> TRUE]
            /\ UNCHANGED host_pending_requests
       ELSE /\ host_call' =
                   [pc |-> "returned", req |-> host_call.req,
                    message_id |-> host_call.message_id,
                    result |-> [success |-> FALSE,
                                data |-> [message |-> "Request timeout"]],
                    arrived |-> HostCallResponseQueued]
            /\ host_pending_requests' =
                   IF host_call.message_id \in DOMAIN host_pending_requests
                   THEN DictPop(host_pending_requests, host_call.message_id)
                   ELSE host_pending_requests
    /\ host_event' = [kind |-> "send_protocol_request returns",
                      req |-> host_call.req]
    /\ UNCHANGED <<host_is_connected, serial_data_queue, host_data_queue,
                   host_message_id, host_timers, hostQuiet>>
    /\ UNCHANGED callOthers

(***************************************************************************)
(* modbus_tcp_master_tab.py: connect_to_server, disconnect_from_server and *)
(* the receive_worker threads, one started by every connect. The button    *)
(* handlers and the frame.after callbacks run on the Tk main thread; a     *)
(* worker runs one statement of its loop at a time.                        *)
(***************************************************************************)

MaxConnects == 3           \* connect_to_server calls that succeed

ConnInit ==
    /\ conn_is_connected = FALSE
    /\ conn_client_socket = 0
    /\ conn_sockets = [k \in 1..MaxConnects |-> "unborn"]
    /\ conn_workers = [w \in 1..MaxConnects |-> [pc |-> "unborn", socket |-> 0]]
    /\ conn_after_queue = 0
    /\ conn_connects = 0

\* connect_to_server, the connection succeeding: a new socket becomes
\* client_socket, is_connected is set, and a receive_worker is started.
MasterConnectToServer ==
    /\ ~conn_is_connected
    /\ conn_connects < MaxConnects
    /\ LET k == conn_connects + 1
       IN  /\ conn_connects' = k
           /\ conn_sockets' = [conn_sockets EXCEPT ![k] = "open"]
           /\ conn_client_socket' = k
           /\ conn_is_connected' = TRUE
           /\ conn_workers' =
                  [conn_workers EXCEPT ![k] = [pc |-> "loop", socket |-> 0]]
    /\ UNCHANGED conn_after_queue
    /\ UNCHANGED connOthers

\* disconnect_from_server: is_connected is cleared whatever it was, the
\* socket that client_socket names is closed, and client_socket is None.
close_client_socket ==
    /\ conn_is_connected' = FALSE
    /\ conn_sockets' =
           IF conn_client_socket # 0
           THEN [conn_sockets EXCEPT ![conn_client_socket] = "closed"]
           ELSE conn_sockets
    /\ conn_client_socket' = 0

\* The Disconnect button (enabled while connected).
MasterDisconnectFromServer ==
    /\ conn_is_connected
    /\ close_client_socket
    /\ UNCHANGED <<conn_workers, conn_after_queue, conn_connects>>
    /\ UNCHANGED connOthers

\* A disconnect_from_server that a worker gave to frame.after(0, ...) runs.
MasterScheduledDisconnect ==
    /\ conn_after_queue > 0
    /\ conn_after_queue' = conn_after_queue - 1
    /\ close_client_socket
    /\ UNCHANGED <<conn_workers, conn_connects>>
    /\ UNCHANGED connOthers

\* The server closes its end of a connection.
ServerClosesConnection ==
    \E k \in 1..MaxConnects :
        /\ conn_sockets[k] = "open"
        /\ conn_sockets' = [conn_sockets EXCEPT ![k] = "peer_closed"]
        /\ UNCHANGED <<conn_is_connected, conn_client_socket, conn_workers,
                       conn_after_queue, conn_connects>>
        /\ UNCHANGED connOthers

\* The exits of receive_worker's loop: "if self.is_connected:" the worker
\* schedules disconnect_from_server, then it breaks.
worker_exits(w) ==
    /\ conn_workers' = [conn_workers EXCEPT ![w] = [pc |-> "done", socket |-> 0]]
    /\ conn_after_queue' =
           conn_after_queue + (IF conn_is_connected THEN 1 ELSE 0)

\* receive_worker: "while self.is_connected and self.client_socket".
ReceiveWorkerLoop(w) ==
    /\ conn_workers[w].pc = "loop"
    /\ conn_workers' =
           [conn_workers EXCEPT ![w] =
                IF conn_is_connected /\ conn_client_socket # 0
                THEN [pc |-> "settimeout", socket |-> 0]
                ELSE [pc |-> "done", socket |-> 0]]
    /\ UNCHANGED <<conn_is_connected, conn_client_socket, conn_sockets,
                   conn_after_queue, conn_connects>>
    /\ UNCHANGED connOthers

\* receive_worker: "self.client_socket.settimeout(1.0)" on what
\* client_socket names now. None has no settimeout (AttributeError) and a
\* closed socket raises OSError: both end in "except Exception".
ReceiveWorkerSetTimeout(w) ==
    /\ conn_workers[w].pc = "settimeout"
    /\ IF conn_client_socket # 0 /\ conn_sockets[conn_client_socket] # "closed"
       THEN /\ conn_workers' =
                   [conn_workers EXCEPT ![w] = [pc |-> "call_recv", socket |-> 0]]
            /\ UNCHANGED conn_after_queue
       ELSE worker_exits(w)
    /\ UNCHANGED <<conn_is_connected, conn_client_socket, conn_sockets,
                   conn_connects>>
    /\ UNCHANGED connOthers

\* receive_worker: "self.client_socket.recv(1024)" is entered on what
\* client_socket names now (None: AttributeError).
ReceiveWorkerCallsRecv(w) ==
    /\ conn_workers[w].pc = "call_recv"
    /\ IF conn_client_socket # 0
       THEN /\ conn_workers' =
                   [conn_workers EXCEPT
                        ![w] = [pc |-> "recv", socket |-> conn_client_socket]]
            /\ UNCHANGED conn_after_queue
       ELSE worker_exits(w)
    /\ UNCHANGED <<conn_is_connected, conn_client_socket, conn_sockets,
                   conn_connects>>
    /\ UNCHANGED connOthers

\* recv returns: on an open socket with data, or with socket.timeout after
\* one second, and the loop goes on. A recv that is waiting when
\* disconnect_from_server closes its socket ends with socket.timeout or
\* with OSError, depending on whether the descriptor is in use again.
ReceiveWorkerReceives(w) ==
    /\ conn_workers[w].pc = "recv"
    /\ conn_sockets[conn_workers[w].socket] \in {"open", "closed"}
    /\ conn_workers' = [conn_workers EXCEPT ![w] = [pc |-> "loop", socket |-> 0]]
    /\ UNCHANGED <<conn_is_connected, conn_client_socket, conn_sockets,
                   conn_after_queue, conn_connects>>
    /\ UNCHANGED connOthers

\* recv returns b"" (the server closed the connection) or raises OSError
\* (the socket was closed by disconnect_from_server): the worker leaves.
ReceiveWorkerRecvEnds(w) ==
    /\ conn_workers[w].pc = "recv"
    /\ conn_sockets[conn_workers[w].socket] \in {"peer_closed", "closed"}
    /\ worker_exits(w)
    /\ UNCHANGED <<conn_is_connected, conn_client_socket, conn_sockets,
                   conn_connects>>
    /\ UNCHANGED connOthers

ReceiveWorkerStep(w) ==
    \/ ReceiveWorkerLoop(w)
    \/ ReceiveWorkerSetTimeout(w)
    \/ ReceiveWorkerCallsRecv(w)
    \/ ReceiveWorkerReceives(w)
    \/ ReceiveWorkerRecvEnds(w)

\* The state of each harness before it is given an input.
CodecIdle ==
    /\ cx_packet = Packet(0, 0, 0, <<>>)
    /\ cx_bytes = <<>>
    /\ cx_stage = "idle"
    /\ cx_flip = None
    /\ cx_result = None

MxIdle ==
    /\ mx_call = [kind |-> "none"]
    /\ mx_frame = None
    /\ mx_bytes = <<>>
    /\ mx_stage = "idle"
    /\ mx_decoded = None
    /\ mx_parsed = None

ReasmIdle ==
    /\ rs_items = <<>>
    /\ rs_fed = 0
    /\ rs_split = FALSE

\* The harnesses a specification does not use.
\* A tab that a specification does not work with: no registers, nothing
\* counted.
DeviceTabIdle ==
    /\ device_own_address = DEVICE_ADDRESS
    /\ device_register_map = RegisterMap(0)
    /\ device_simulate_errors = FALSE
    /\ device_error_type = "none"
    /\ device_response_count = 0
    /\ device_error_count = 0
    /\ device_port_open = FALSE
    /\ device_event = [kind |-> "none"]

SlaveTabIdle ==
    /\ slave_register_map = ModbusRegisterMap(0)
    /\ slave_simulate_errors = FALSE
    /\ slave_error_type = "none"
    /\ slave_request_count = 0
    /\ slave_response_count = 0
    /\ slave_error_count = 0
    /\ slave_event = [kind |-> "none"]

\* No session: neither tab is worked with.
SessionIdle == NoSession /\ DeviceTabIdle /\ SlaveTabIdle

OthersIdle == DecodeIdle /\ RegMapIdle /\ SessionIdle

\* The tabs as constructed.
TabsInit ==
    /\ DeviceInit /\ HostInit /\ MasterInit /\ ServerInit /\ GuiInit
    /\ HostCallInit /\ ConnInit /\ SlaveCallInit

InitCodec == CodecInit /\ MxIdle /\ TabsInit /\ ReasmIdle /\ OthersIdle

CodecNext ==
    \/ CodecToBytes
    \/ CodecFlipBit
    \/ CodecFromBytes

SpecCodec == InitCodec /\ [][CodecNext]_vars

InitModbusCodec == MxInit /\ CodecIdle /\ TabsInit /\ ReasmIdle /\ OthersIdle

ModbusCodecNext ==
    \/ MxBuild
    \/ MxToBytes
    \/ MxFromBytes
    \/ MxParse

SpecModbusCodec == InitModbusCodec /\ [][ModbusCodecNext]_vars

\* A byte stream read from the main serial port in chunks.
InitReassembly == ReasmInit /\ TabsInit /\ CodecIdle /\ MxIdle /\ OthersIdle

ReassemblyNext == ReasmFeed

SpecReassembly == InitReassembly /\ [][ReassemblyNext]_vars

\* Streams that fill the buffers, read in blocks.
InitBuffer == BufferInit /\ TabsInit /\ CodecIdle /\ MxIdle /\ OthersIdle

BufferNext ==
    \/ ReasmFeedBlock

SpecBuffer == InitBuffer /\ [][BufferNext]_vars

\* The custom-protocol host: requests, their timeouts, and responses read
\* from the host tab's own port or from the main serial port.
InitHost == TabsInit /\ ReasmIdle /\ CodecIdle /\ MxIdle /\ OthersIdle

HostNext ==
    \/ HostConnectSerial
    \/ HostDisconnectSerial
    \/ HostOnMessageIdChange
    \/ HostSendRequest
    \/ HostTimeoutFires
    \/ HostReadSerialThread
    \/ HostCheckDataQueue
    \/ HostProcessResponses
    \/ GuiReadSerialThread

SpecHost == InitHost /\ [][HostNext]_vars

\* Tk runs every callback it was given: a due timeout fires,
\* check_data_queue runs every 25 ms and process_responses every 5 ms.
FairSpecHost ==
    /\ SpecHost
    /\ WF_vars(HostTimeoutFires)
    /\ WF_vars(HostCheckDataQueue)
    /\ WF_vars(HostProcessResponses)

\* The Modbus TCP master and a server on its connection.
InitMaster == TabsInit /\ ReasmIdle /\ CodecIdle /\ MxIdle /\ OthersIdle

MasterNext ==
    \/ MasterConnect
    \/ MasterDisconnect
    \/ MasterSendRequest
    \/ MasterSendRequestFails
    \/ ServerSends
    \/ MasterReceiveWorker
    \/ MasterProcessResponse
    \/ MasterTimeoutFires

SpecMaster == InitMaster /\ [][MasterNext]_vars

\* Tk runs every callback it was given: a due timeout fires, and a
\* process_response queued by after(0) runs.
FairSpecMaster ==
    /\ SpecMaster
    /\ WF_vars(MasterTimeoutFires)
    /\ WF_vars(MasterProcessResponse)

\* The message id of the host tab and the transaction id of the master
\* over their sends, the master also late in its life: after requests that
\* all timed out.
MasterSentBefore == {0, 65533}

InitIds ==
    /\ DeviceInit /\ HostInit /\ ServerInit /\ GuiInit
    /\ HostCallInit /\ ConnInit /\ SlaveCallInit
    /\ \E sent \in MasterSentBefore : MasterAfterTimeouts(sent)
    /\ ReasmIdle /\ CodecIdle /\ MxIdle /\ OthersIdle

IdsNext ==
    \/ HostConnectSerial
    \/ HostMessageIdEdited
    \/ HostSendRequest
    \/ MasterConnect
    \/ MasterSendRequest

SpecIds == InitIds /\ [][IdsNext]_vars

\* Responses reaching the host tab, or the master tab, whichever tab the
\* session works with.
InitResponses ==
    /\ TabsInit /\ ReasmIdle /\ CodecIdle /\ MxIdle /\ DecodeIdle /\ RegMapIdle
    /\ DeviceTabIdle /\ SlaveTabIdle
    /\ session_ops = 0
    /\ session_tab \in {"host", "modbus_master"}

\* The host tab's own port delivers nothing here: what its read thread
\* queues never reaches handle_response, and process_responses reads nothing.
HostResponsesNext ==
    \/ HostConnectSerial
    \/ HostDisconnectSerial
    \/ HostOnMessageIdChange
    \/ HostSendRequest
    \/ HostTimeoutFires
    \/ HostCheckDataQueue
    \/ GuiReadSerialThread

ResponsesNext ==
    \/ session_tab = "host" /\ HostResponsesNext
    \/ session_tab = "modbus_master" /\ MasterNext

SpecResponses == InitResponses /\ [][ResponsesNext]_vars

\* The host tab with a register grid: requests sent from the tab, one
\* blocking request of the grid, and both serial read threads. The
\* callbacks of the Tk main thread run while it is not blocked in the call.
InitProtocolRequest ==
    /\ TabsInit /\ ReasmIdle /\ CodecIdle /\ MxIdle /\ OthersIdle

ProtocolRequestNext ==
    \/ HostMainThreadFree /\ HostConnectSerial
    \/ HostMainThreadFree /\ HostDisconnectSerial
    \/ HostMainThreadFree /\ HostSendRequest
    \/ HostMainThreadFree /\ HostTimeoutFires
    \/ HostMainThreadFree /\ HostCheckDataQueue
    \/ HostSendProtocolRequest
    \/ HostProtocolRequestReturns
    \/ HostReadSerialThread
    \/ GuiReadSerialThread

SpecProtocolRequest == InitProtocolRequest /\ [][ProtocolRequestNext]_vars

\* The connection of the Modbus TCP master and its receive threads.
InitConnection ==
    /\ TabsInit /\ ReasmIdle /\ CodecIdle /\ MxIdle /\ OthersIdle

ConnectionNext ==
    \/ MasterConnectToServer
    \/ MasterDisconnectFromServer
    \/ MasterScheduledDisconnect
    \/ ServerClosesConnection
    \/ \E w \in 1..MaxConnects : ReceiveWorkerLoop(w)
    \/ \E w \in 1..MaxConnects : ReceiveWorkerSetTimeout(w)
    \/ \E w \in 1..MaxConnects : ReceiveWorkerCallsRecv(w)
    \/ \E w \in 1..MaxConnects : ReceiveWorkerReceives(w)
    \/ \E w \in 1..MaxConnects : ReceiveWorkerRecvEnds(w)

SpecConnection == InitConnection /\ [][ConnectionNext]_vars

\* The Modbus TCP slave as a server: starts and stops, clients that connect,
\* send and leave, and the threads serving them.
InitServer ==
    /\ TabsInit /\ ReasmIdle /\ CodecIdle /\ MxIdle /\ DecodeIdle /\ RegMapIdle
    /\ NoSession /\ DeviceTabIdle
    /\ SlaveTabInit

ServerNext ==
    \/ SlaveStartServer
    \/ SlaveStopServer
    \/ ClientConnects
    \/ ClientCloses
    \/ \E w \in 1..MaxStarts : ServerWorkerLoop(w)
    \/ \E w \in 1..MaxStarts : ServerWorkerAccepts(w)
    \/ \E w \in 1..MaxStarts : ServerWorkerAcceptFails(w)
    \/ \E c \in 1..MaxClients : ClientWorkerLoop(c)
    \/ \E c \in 1..MaxClients : ClientWorkerReceives(c)
    \/ \E c \in 1..MaxClients : ClientWorkerRecvFails(c)
    \/ \E c \in 1..MaxClients : ClientWorkerFinally(c)

SpecServer == InitServer /\ [][ServerNext]_vars

\* Every thread that can take a step is scheduled in the end.
FairSpecServer ==
    /\ SpecServer
    /\ \A w \in 1..MaxStarts : WF_vars(ServerWorkerStep(w))
    /\ \A c \in 1..MaxClients : WF_vars(ClientWorkerStep(c))

\* The main window's connection and its read threads.
InitGui == TabsInit /\ ReasmIdle /\ CodecIdle /\ MxIdle /\ OthersIdle

GuiNext ==
    \/ GuiConnectSerial
    \/ GuiStartReadThread
    \/ GuiDisconnectSerial
    \/ \E t \in 1..MaxReadThreads : GuiReadThreadLoop(t)
    \/ \E t \in 1..MaxReadThreads : GuiReadThreadReads(t)
    \/ \E t \in 1..MaxReadThreads : GuiReadThreadIdles(t)

SpecGui == InitGui /\ [][GuiNext]_vars

\* Byte strings of every kind handed to the two decoders.
InitDecode ==
    /\ DxInit /\ TabsInit /\ ReasmIdle /\ CodecIdle /\ MxIdle
    /\ RegMapIdle /\ SessionIdle

DecodeNext ==
    \/ DxPacketFromBytes
    \/ DxFrameFromBytes
    \/ DxParseRequest
    \/ DxParseResponse

SpecDecode == InitDecode /\ [][DecodeNext]_vars

\* A register map of either class and calls of its methods.
InitRegisterMap ==
    /\ RmInit /\ TabsInit /\ ReasmIdle /\ CodecIdle /\ MxIdle
    /\ DecodeIdle /\ SessionIdle

RegisterMapNext ==
    \/ RmRead
    \/ RmWrite
    \/ RmReadMultiple
    \/ RmWriteMultiple
    \/ RmClear
    \/ RmReadRegisters
    \/ RmWriteRegisters
    \/ RmGetRegister
    \/ RmSetRegister

SpecRegisterMap == InitRegisterMap /\ [][RegisterMapNext]_vars

\* A session with the device tab: requests from the serial port and the
\* buttons and fields of the tab, in any order.
\* A session of one of the two tabs; the main window has its serial port
\* open or closed when the session starts.
InitSession ==
    /\ TabsInit /\ ReasmIdle /\ CodecIdle /\ MxIdle /\ DecodeIdle /\ RegMapIdle
    /\ session_ops = 0
    /\ \/ /\ session_tab = "device"
          /\ DeviceTabInit /\ device_port_open \in BOOLEAN
          /\ SlaveTabIdle
       \/ /\ session_tab = "modbus_slave"
          /\ SlaveTabInit
          /\ DeviceTabIdle

SessionNext ==
    \/ DeviceHandleRawData
    \/ DevicePortToggles
    \/ DeviceUpdateAddress
    \/ DeviceToggleErrorRadios
    \/ DeviceSelectErrorType
    \/ DeviceResizeRegisterMap
    \/ DeviceClearRegisters
    \/ DeviceLoadTestPattern
    \/ DeviceSetRegister
    \/ DeviceSetMultipleRegisters
    \/ SlaveClientWorker
    \/ SlaveToggleErrorOptions
    \/ SlaveSelectErrorType
    \/ SlaveSetRegisterValue
    \/ SlaveClearAllRegisters
    \/ SlaveLoadTestPattern

SpecSession == InitSession /\ [][SessionNext]_vars

\* The worker thread of the slave and the error simulation controls. The
\* session starts with the controls in any position they can be brought to.
InitSlaveRequest ==
    /\ TabsInit /\ ReasmIdle /\ CodecIdle /\ MxIdle /\ DecodeIdle /\ RegMapIdle
    /\ session_ops = 0
    /\ session_tab = "modbus_slave"
    /\ DeviceTabIdle
    /\ slave_register_map = ModbusRegisterMap(DEFAULT_MODBUS_MAP_SIZE)
    /\ slave_simulate_errors \in BOOLEAN
    /\ slave_error_type \in
           IF slave_simulate_errors THEN SlaveErrorTypes ELSE {"none"}
    /\ slave_request_count = 0
    /\ slave_response_count = 0
    /\ slave_error_count = 0
    /\ slave_event = [kind |-> "init"]

SlaveRequestNext ==
    \/ SlaveWorkerTestsSimulation
    \/ SlaveWorkerGeneratesError
    \/ SlaveToggleErrorOptions
    \/ SlaveSelectErrorType

SpecSlaveRequest == InitSlaveRequest /\ [][SlaveRequestNext]_vars

\* ==== Claims ====

\* The checksum bytes at the end of an encoding, as a 16-bit value.
AppendedChecksum(bytes) ==
    bytes[Len(bytes) - 1] * 256 + bytes[Len(bytes)]

RECURSIVE RangeSum(_, _, _)
RangeSum(f, lo, hi) ==
    IF lo > hi THEN 0
    ELSE IF lo = hi THEN f[lo]
    ELSE LET mid == (lo + hi) \div 2
         IN  RangeSum(f, lo, mid) + RangeSum(f, mid + 1, hi)

\* Fletcher-16 with both sums reduced modulo 256, in closed form:
\* sum1 is the sum of the bytes, sum2 the sum of the n running sums, in
\* which byte i is counted n - i + 1 times.
Fletcher16Reference(s) ==
    LET n == Len(s)
        sum1 == RangeSum(s, 1, n) % 256
        sum2 == RangeSum([i \in 1..n |-> (n - i + 1) * s[i]], 1, n) % 256
    IN  sum2 * 256 + sum1

\* C7: for every valid packet x, from_bytes(x.to_bytes()) is a packet with
\* x's device_address, message_id, function_code and data, whose checksum
\* is the value to_bytes appended.
C7_RoundTrip ==
    (cx_stage = "decoded" /\ cx_flip = None /\ ValidPacket(cx_packet))
        => cx_result =
             Some([cx_packet EXCEPT !.checksum = Some(AppendedChecksum(cx_bytes))])

C7_Witness ==
    /\ cx_stage = "decoded"
    /\ cx_flip = None
    /\ Len(cx_packet.data) = MaxPayload
    /\ cx_result # None

\* C9: for every valid packet, from_bytes of its encoding with any single
\* bit flipped returns None.
C9_BitFlipRejected ==
    (cx_stage = "decoded" /\ cx_flip # None /\ ValidPacket(cx_packet))
        => cx_result = None

\* The dictionary the matching parser must return for a builder call.
BuilderArguments(call) ==
    CASE call.kind = "read_request" ->
            [function |-> "read_holding_registers",
             start_address |-> call.start, count |-> call.count]
      [] call.kind = "read_response" ->
            [function |-> "read_holding_registers_response", values |-> call.values]
      [] call.kind = "write_request" ->
            [function |-> "write_multiple_registers", start_address |-> call.start,
             count |-> Len(call.values), values |-> call.values]
      [] call.kind = "write_response" ->
            [function |-> "write_multiple_registers_response",
             start_address |-> call.start, count |-> call.count]
      [] OTHER ->
            [function |-> "exception_response",
             original_function |-> call.function_code,
             exception_code |-> call.exception_code]

C10_Layout ==
    (cx_stage = "encoded" /\ ValidPacket(cx_packet)) =>
        LET body == <<126, cx_packet.device_address, cx_packet.message_id,
                      Len(cx_packet.data) + 1, cx_packet.function_code>>
                        \o cx_packet.data
            chk  == Fletcher16Reference(body)
        IN  /\ Len(cx_bytes) = 7 + Len(cx_packet.data)
            /\ cx_bytes = body \o <<chk \div 256, chk % 256>>
            /\ (cx_packet = Packet(1, 16, 1, <<18, 52>>)
                  => SubSeq(cx_bytes, 1, 7) = <<126, 1, 16, 3, 1, 18, 52>>)

C10_Witness ==
    /\ cx_stage = "encoded"
    /\ cx_packet = Packet(1, 16, 1, <<18, 52>>)
    /\ cx_bytes = <<126, 1, 16, 3, 1, 18, 52, 47, 217>>

\* The bytes fed so far, and, for a stream of valid packets, how many of its
\* packets are complete in them.
RsFed == SubSeq(rs_stream, 1, rs_fed)
RsClean == \A n \in 1..Len(rs_items) : rs_items[n].valid
RsEnd(n) == Len(ItemBytes(rs_items, n))
RsComplete == Cardinality({n \in 1..Len(rs_items) : RsEnd(n) <= rs_fed})
SamePackets(handed, n) ==
    /\ Len(handed) = n
    /\ \A i \in 1..n :
           /\ handed[i].device_address = rs_items[i].packet.device_address
           /\ handed[i].message_id = rs_items[i].packet.message_id
           /\ handed[i].function_code = rs_items[i].packet.function_code
           /\ handed[i].data = rs_items[i].packet.data

\* C5: feeding a byte stream to handle_raw_data in chunks of any sizes hands
\* the same packets to handle_request (device) and handle_response (host),
\* and leaves the same buffer, as processing the bytes fed so far in one
\* piece; for a stream of valid packets the packets handed over are exactly
\* those whose last byte has arrived, each once and in order, and the buffer
\* holds the bytes of the packet that is still incomplete.
C5_ChunkingInvariant ==
    LET dev == process_buffer(RsFed)
        hst == process_response_buffer(RsFed)
    IN  /\ device_handled = dev.packets
        /\ device_request_buffer = dev.buffer
        /\ device_request_count = Len(device_handled)
        /\ host_handled = hst.packets
        /\ host_response_buffer = hst.buffer
        /\ RsClean =>
               /\ SamePackets(device_handled, RsComplete)
               /\ SamePackets(host_handled, RsComplete)
               /\ device_request_buffer =
                      SubSeq(rs_stream, RsEnd(RsComplete) + 1, rs_fed)
               /\ host_response_buffer = device_request_buffer

\* C5 witness: a whole stream of valid packets has been fed, one of the
\* packets was completed by a later read than the one that brought its
\* first bytes, and every packet was handed over.
C5_Witness ==
    /\ rs_split
    /\ RsClean
    /\ Len(rs_items) >= 2
    /\ rs_fed = Len(rs_stream)
    /\ Len(device_handled) = Len(rs_items)
    /\ Len(host_handled) = Len(rs_items)

\* C2: when a timeout armed by HostTab.send_request fires, check_timeout is
\* called with the message id the request was sent with.
C2_TimeoutChecksOwnId ==
    host_event.kind = "check_timeout"
        => host_event.msg_id = host_event.armed_for

\* C1: when the response of a request has been matched, the later firing
\* of that request's timeout removes nothing from pending_requests.
C1_TimeoutAfterResponseIsNoOp ==
    (host_event.kind = "check_timeout" /\ host_event.req \in host_matched)
        => ~host_event.removed

\* Bytes read from the host tab's own port are still in one of the two
\* queues they pass through.
HostRxQueued ==
    \/ host_data_queue # <<>>
    \/ \E i \in 1..Len(serial_data_queue) : serial_data_queue[i][1] = "rx"

\* C4: when the response of a pending request is read from the host tab's
\* own serial port before the request's timeout fires, the request is
\* eventually matched by handle_response, or at least the bytes read are
\* eventually taken out of the queues to be fed to the response buffer.
C4_ReceivedIsMatched ==
    \A n \in 1..MaxSends :
        (n \in host_rx_pending) ~> (n \in host_matched \/ ~HostRxQueued)

\* A pending request of the master has a timeout armed for its own
\* transaction id.
C3_PendingHasTimeout ==
    \A tid \in DOMAIN master_pending_requests :
        [req |-> master_pending_requests[tid], tid |-> tid] \in master_timers

\* What the last firing of a master timeout did to the request it was armed
\* for.
C3_TimeoutEvent ==
    master_event.kind = "check_timeout" =>
        IF master_event.was_pending
        THEN /\ master_event.tid = master_event.armed_for
             /\ master_event.removed
             /\ master_event.removed_req = master_event.req
             /\ master_event.armed_for \notin DOMAIN master_pending_requests
             /\ master_status[master_event.req] = "timed_out"
             /\ master_timeout_count = master_event.timeout_count_before + 1
        ELSE /\ ~master_event.removed
             /\ master_timeout_count = master_event.timeout_count_before

\* C3: in the Modbus TCP master a pending request always has a timeout armed
\* for its own transaction id; when that timeout fires and the request is
\* still pending, the request is removed and timeout_count goes up by one,
\* and otherwise the firing changes nothing; and every request sent ends up
\* matched, timed out, or cleared by a disconnect.
C3_OwnTimeout ==
    /\ [](C3_PendingHasTimeout /\ C3_TimeoutEvent)
    /\ \A n \in 1..MaxMasterSends :
           (master_status[n] = "pending")
               ~> (master_status[n] \in {"matched", "timed_out", "cleared"})

\* C3 witness: every request sent went unanswered and was removed by its
\* own timeout.
C3_Witness ==
    /\ master_event.kind = "check_timeout"
    /\ master_event.was_pending
    /\ master_timeout_count = MaxMasterSends
    /\ \A n \in 1..MaxMasterSends : master_status[n] = "timed_out"

\* C6: once the master has received every byte the server wrote, the frames
\* passed to handle_response are the frames the server wrote, in order.
C6_EveryFrameHandled ==
    (master_is_connected /\ master_socket = <<>>)
        => master_handled = master_wire

\* The 16-bit big-endian value at 0-based offset i of a byte string.
BigEndianAt(bytes, i) == bytes[i + 1] * 256 + bytes[i + 2]

\* The Read Holding Registers request of the example.
C11_Example ==
    [kind |-> "read_request", tid |-> 1, unit |-> 1, start |-> 26, count |-> 10]

\* C11: every frame a ModbusTCPBuilder method builds encodes to
\* [transaction_id:u16][0:u16][length:u16][unit_id:u8][function_code][data],
\* big-endian, the length field being the number of bytes after it; a read
\* request carries start and count as two big-endian words; and the read
\* request for transaction 1, unit 1, start 0x001A, count 10 encodes to
\* 00 01 00 00 00 06 01 03 00 1A 00 0A.
C11_FrameLayout ==
    (mx_stage = "encoded" /\ mx_call.kind # "raw") =>
        LET f == mx_frame[1]
            n == Len(mx_bytes)
        IN  /\ n = 8 + Len(f.data)
            /\ BigEndianAt(mx_bytes, 0) = mx_call.tid
            /\ BigEndianAt(mx_bytes, 2) = 0
            /\ BigEndianAt(mx_bytes, 4) = n - 6
            /\ mx_bytes[7] = mx_call.unit
            /\ mx_bytes[8] = f.function_code
            /\ SubSeq(mx_bytes, 9, n) = f.data
            /\ mx_call.kind = "read_request" =>
                   /\ n = 12
                   /\ mx_bytes[8] = 3
                   /\ BigEndianAt(mx_bytes, 8) = mx_call.start
                   /\ BigEndianAt(mx_bytes, 10) = mx_call.count
            /\ mx_call = C11_Example =>
                   mx_bytes = <<0, 1, 0, 0, 0, 6, 1, 3, 0, 26, 0, 10>>

\* C11 witness: the example request has been encoded.
C11_Witness ==
    /\ mx_stage = "encoded"
    /\ mx_call = C11_Example
    /\ mx_bytes = <<0, 1, 0, 0, 0, 6, 1, 3, 0, 26, 0, 10>>

\* Option(x): x is None or a one-element sequence holding a record.
IsOptionalRecord(x) ==
    x = None \/ (Len(x) = 1 /\ DOMAIN x[1] \subseteq STRING)

\* C13: on every byte string Packet.from_bytes and ModbusTCPFrame.from_bytes
\* return a decoded frame or None without raising, every index they
\* subscript lying inside the input; parse_request and parse_response
\* return a dict or None for every decoded packet.
C13_NeverRaises ==
    /\ dx_stage # "raised"
    /\ dx_reads \subseteq 0..(dx_len - 1)
    /\ dx_stage \in {"decoded", "parsed"} => IsOptionalRecord(dx_result)
    /\ dx_stage = "parsed" => IsOptionalRecord(dx_parsed.result)

\* C13 witness: a packet with the largest length byte its bytes allow was
\* decoded, its last checksum byte being the last byte of the input.
C13_Witness ==
    /\ dx_kind = "packet"
    /\ dx_stage = "decoded"
    /\ dx_result # None
    /\ Len(dx_bytes) = MaxDecodeData + 7
    /\ (Len(dx_bytes) - 1) \in dx_reads

\* C12: ModbusTCPFrame.from_bytes returns a frame only when the protocol id
\* is 0 and the length field equals the number of bytes after it, which is
\* at least 2 (unit id and function code).
C12_LengthMustMatch ==
    (dx_kind = "frame" /\ dx_stage = "decoded" /\ dx_result # None) =>
        /\ BigEndianAt(dx_bytes, 2) = 0
        /\ BigEndianAt(dx_bytes, 4) = Len(dx_bytes) - 6
        /\ BigEndianAt(dx_bytes, 4) >= 2

\* A list of values has one outside 0..0xFFFF.
HasBadValue(values) ==
    \E i \in 1..Len(values) : values[i] < 0 \/ values[i] > 65535

\* C14: for a register map of size N, read(N) returns None and write(N, v)
\* returns False; write of a value above 0xFFFF returns False; a
\* write_multiple or write_registers call whose range passes the end of the
\* map or that holds a value out of range returns False; and every write
\* that returns False leaves every register unchanged.
C14_BoundsAndAllOrNothing ==
    LET N == rm_before.size
        c == rm_call
    IN  /\ (c.op = "read" /\ c.address = N) => rm_result = None
        /\ (c.op = "write" /\ c.address = N) => rm_result = FALSE
        /\ (c.op = "write" /\ c.value > 65535) => rm_result = FALSE
        /\ (c.op \in {"write_multiple", "write_registers"}
              /\ (c.address + Len(c.values) > N \/ HasBadValue(c.values)))
             => rm_result = FALSE
        /\ (c.op \in {"write", "write_multiple", "write_registers",
                      "set_register"} /\ rm_result = FALSE)
             => rm_map = rm_before
        /\ c.op \in {"read", "read_multiple", "read_registers",
                     "get_register"} => rm_map = rm_before

\* C14 witness: after a write that changed the map, write_multiple at N-1
\* with two values, or with a value out of range at an address that fits,
\* returned False.
C14_Witness ==
    /\ rm_call.op = "write_multiple"
    /\ rm_result = FALSE
    /\ rm_before.size = 2
    /\ rm_before.registers = <<65535, 0>>
    /\ \/ rm_call.address = 1 /\ rm_call.values = <<4660, 4660>>
       \/ rm_call.address = 0 /\ rm_call.values = <<4660, 65536>>

\* ---- C15 ----

WellFormedMap(map) ==
    /\ Len(map.registers) = map.size
    /\ \A i \in 1..Len(map.registers) : map.registers[i] \in 0..65535

DeviceRequestStep == device_request_count' # device_request_count
DeviceRequestHandled == device_event'.packets[1]

\* C16: when a device with address a handles a request addressed to b, with
\* b different from a and from 0, nothing is sent and the register map,
\* response_count and error_count stay as they were, whatever the function
\* code and the payload.
C16_OtherAddressIgnored ==
    [][(/\ DeviceRequestStep
        /\ DeviceRequestHandled.device_address # device_own_address
        /\ DeviceRequestHandled.device_address # 0)
       => /\ device_event'.sent = <<>>
          /\ device_register_map' = device_register_map
          /\ device_response_count' = device_response_count
          /\ device_error_count' = device_error_count]_vars

\* C16 witness: a device whose address was set to 5 handled a write request
\* addressed to device 1.
C16_Witness ==
    /\ device_own_address = 5
    /\ device_event.kind = "handle_raw_data"
    /\ device_event.packets[1].device_address = 1
    /\ device_event.packets[1].function_code = WRITE_SINGLE
    /\ device_request_count = 1

\* ---- C17 ----

\* What handle_request leaves when the request handled in this step is
\* addressed to the device itself instead.
AddressedInstead ==
    handle_request(DeviceState,
                   [DeviceRequestHandled EXCEPT
                       !.device_address = device_own_address])

\* C17: a request addressed to device 0 leaves the register map and the
\* counters of requests and errors as the same request addressed to the
\* device leaves them, and nothing is sent for it, whether it succeeds,
\* fails or error simulation is armed.
C17_BroadcastProcessedUnanswered ==
    [][(DeviceRequestStep /\ DeviceRequestHandled.device_address = 0)
       => /\ device_register_map' = AddressedInstead.register_map
          /\ device_request_count' = AddressedInstead.request_count
          /\ device_error_count' = AddressedInstead.error_count
          /\ device_event'.sent = <<>>
          /\ device_response_count' = device_response_count]_vars

\* C17 witness: a broadcast write of 0x1234 to register 16 was handled; the
\* register holds the value and nothing was sent.
C17_Witness ==
    /\ device_event.kind = "handle_raw_data"
    /\ device_event.packets[1].device_address = 0
    /\ device_event.packets[1].function_code = WRITE_SINGLE
    /\ device_event.sent = <<>>
    /\ device_register_map.registers[17] = 4660

\* ---- C18 ----

\* The codes the claim gives to the error types of the two tabs.
DeviceErrorCodes ==
    [invalid_function |-> 1, invalid_address |-> 2, invalid_value |-> 3,
     internal_error |-> 255]
SlaveExceptionCodes ==
    [illegal_function |-> 1, illegal_address |-> 2, illegal_value |-> 3,
     device_failure |-> 4]

\* The device handles, with error simulation armed, a request that it
\* processes: one that parses and is addressed to it or to 0.
DeviceSimulatedStep ==
    /\ DeviceRequestStep
    /\ device_simulate_errors /\ device_error_type # "none"
    /\ parse_request(DeviceRequestHandled) # None
    /\ DeviceRequestHandled.device_address \in {device_own_address, 0}

\* What was sent is one error response for the request, with this code.
IsErrorResponseTo(sent, request, code) ==
    /\ Len(sent) = 1
    /\ from_bytes(sent[1]) # None
    /\ LET response == from_bytes(sent[1])[1]
       IN  /\ response.message_id = request.message_id
           /\ response.function_code = SetErrorBit(request.function_code)
           /\ response.function_code >= 128
           /\ response.data = <<code>>

\* The slave decodes a frame with error simulation armed.
SlaveRequestStep == slave_request_count' # slave_request_count
SlaveRequestHandled == frame_from_bytes(slave_event'.data)[1]
SlaveSimulatedStep ==
    /\ SlaveRequestStep
    /\ slave_simulate_errors /\ slave_error_type # "none"

\* What was sent is an exception response for the request, with this code.
IsExceptionResponseTo(sent, request, code) ==
    /\ sent # None
    /\ frame_from_bytes(sent[1]) # None
    /\ LET response == frame_from_bytes(sent[1])[1]
       IN  /\ response.transaction_id = request.transaction_id
           /\ response.unit_id = request.unit_id
           /\ response.function_code = SetErrorBit(request.function_code)
           /\ response.function_code >= 128
           /\ response.data = <<code>>

C18_SlaveReached ==
    /\ slave_simulate_errors /\ slave_error_type = "device_failure"
    /\ slave_event.kind = "client_worker"
    /\ slave_event.sent # None
    /\ frame_from_bytes(slave_event.data)[1].function_code
           = WRITE_MULTIPLE_REGISTERS
    /\ slave_error_count = 1

\* ---- C19 ----

\* C19 as claimed: a device that handles a packet with a valid checksum,
\* addressed to it, whose function code is not one of 0x01..0x04, sends an
\* error response with the function code with bit 0x80 set, the request's
\* message id and the error code INVALID_FUNCTION.
C19_UnsupportedFunctionAnswered ==
    [][(/\ DeviceRequestStep
        /\ DeviceRequestHandled.device_address = device_own_address
        /\ DeviceRequestHandled.function_code \notin
               {READ_SINGLE, WRITE_SINGLE, READ_MULTIPLE, WRITE_MULTIPLE})
       => IsErrorResponseTo(device_event'.sent, DeviceRequestHandled,
                            INVALID_FUNCTION)]_vars

\* ---- C20 ----

ILLEGAL_FUNCTION == 1      \* ModbusExceptionCode.ILLEGAL_FUNCTION

\* The slave decodes a frame whose function code is neither 0x03 nor 0x10.
SlaveUnsupportedStep ==
    /\ SlaveRequestStep
    /\ SlaveRequestHandled.function_code \notin
           {READ_HOLDING_REGISTERS, WRITE_MULTIPLE_REGISTERS}

\* C20 as claimed: a slave that decodes a frame whose function code is
\* neither 0x03 nor 0x10 answers with an exception response carrying the
\* transaction id and unit id of the request, its function code with bit
\* 0x80 set and the exception code ILLEGAL_FUNCTION, and leaves the register
\* map as it was.
C20_IllegalFunctionAsClaimed ==
    [][SlaveUnsupportedStep
       => /\ IsExceptionResponseTo(slave_event'.sent, SlaveRequestHandled,
                                   ILLEGAL_FUNCTION)
          /\ slave_register_map' = slave_register_map]_vars

\* C20 corrected: the same while error simulation is not armed; armed, the
\* exception code is the one of the selected type (C18).
C20_IllegalFunction ==
    [][(SlaveUnsupportedStep
        /\ ~(slave_simulate_errors /\ slave_error_type # "none"))
       => /\ IsExceptionResponseTo(slave_event'.sent, SlaveRequestHandled,
                                   ILLEGAL_FUNCTION)
          /\ slave_register_map' = slave_register_map]_vars

\* C20 witness: without error simulation the slave answered a frame of unit
\* 255 with function code 5.
C20_Witness ==
    /\ ~slave_simulate_errors
    /\ slave_event.kind = "client_worker"
    /\ frame_from_bytes(slave_event.data)[1].function_code = 5
    /\ frame_from_bytes(slave_event.data)[1].unit_id = 255
    /\ slave_event.sent # None
    /\ slave_error_count = 1

\* ---- C21 ----

\* The slave, error simulation not armed, decodes a read or write request
\* whose register operation fails.
SlaveOperationFails ==
    /\ SlaveRequestStep
    /\ ~(slave_simulate_errors /\ slave_error_type # "none")
    /\ LET request == SlaveRequestHandled
           read_parsed == parse_read_holding_registers_request(request)
           write_parsed == parse_write_multiple_registers_request(request)
       IN  \/ /\ read_parsed # None
              /\ read_registers(slave_register_map,
                                read_parsed[1].start_address,
                                read_parsed[1].count) = None
           \/ /\ write_parsed # None
              /\ ~write_registers(slave_register_map,
                                  write_parsed[1].start_address,
                                  write_parsed[1].values).ok

\* C21 as claimed: a slave that decodes a read or write request whose
\* register operation fails answers with an exception response, the
\* function code with bit 0x80 set and the exception code of an address or
\* value error; it neither answers with a success response nor stays
\* silent.
C21_FailedOperationAnswered ==
    [][SlaveOperationFails
       => \/ IsExceptionResponseTo(slave_event'.sent, SlaveRequestHandled, 2)
          \/ IsExceptionResponseTo(slave_event'.sent, SlaveRequestHandled, 3)]_vars

\* ---- C22 ----

\* The device processes the request handled in this step: it parses and is
\* addressed to the device or to 0.
DeviceProcesses ==
    /\ DeviceRequestStep
    /\ parse_request(DeviceRequestHandled) # None
    /\ DeviceRequestHandled.device_address \in {device_own_address, 0}

DeviceArmed == device_simulate_errors /\ device_error_type # "none"

\* The number of registers the request handled in this step is about.
DeviceRequestCount ==
    LET parsed == parse_request(DeviceRequestHandled)[1]
        func == DeviceRequestHandled.function_code
    IN  IF func = READ_MULTIPLE THEN parsed.count
        ELSE IF func = WRITE_MULTIPLE THEN Len(parsed.values)
        ELSE 1

\* Its registers do not all lie inside the register map.
DeviceRangeOutside ==
    LET addr == parse_request(DeviceRequestHandled)[1].register_address
    IN  ~(/\ 0 <= addr /\ addr < device_register_map.size
          /\ addr + DeviceRequestCount <= device_register_map.size)

\* C22: whatever the device sends for a request is one response with the
\* message id of the request and its function code with 0x40 set on
\* success, with 0x80 set on error; when the register operation fails
\* because of the address or the range, the register map stays as it was
\* and the response is the function code with 0x80 set and the one data
\* byte INVALID_ADDRESS.
C22_ResponsesMatchRequests ==
    [][DeviceRequestStep
       => /\ Len(device_event'.sent) <= 1
          /\ device_event'.sent # <<>>
             => /\ DeviceProcesses
                /\ from_bytes(device_event'.sent[1]) # None
                /\ LET response == from_bytes(device_event'.sent[1])[1]
                       request == DeviceRequestHandled
                   IN  /\ response.message_id = request.message_id
                       /\ response.function_code =
                              IF DeviceArmed \/ DeviceRangeOutside
                              THEN request.function_code + 128
                              ELSE request.function_code + 64
          /\ (DeviceProcesses /\ ~DeviceArmed /\ DeviceRangeOutside)
             => /\ device_register_map' = device_register_map
                /\ DeviceRequestHandled.device_address # 0
                   => IsErrorResponseTo(device_event'.sent,
                                        DeviceRequestHandled,
                                        INVALID_ADDRESS)]_vars

\* C22 witness: without error simulation the device answered a write to
\* register 256 of its 256 registers with an error response.
C22_Witness ==
    /\ ~device_simulate_errors
    /\ device_register_map.size = 256
    /\ device_event.kind = "handle_raw_data"
    /\ device_event.packets[1].device_address = device_own_address
    /\ to_bytes(device_event.packets[1])
           = to_bytes(write_single_request(1, 17, 256, 1))
    /\ device_event.sent # <<>>
    /\ device_error_count = 1

\* A success response was sent too: the read of 125 registers.
C22_SuccessReached ==
    /\ device_event.kind = "handle_raw_data"
    /\ to_bytes(device_event.packets[1])
           = to_bytes(read_multiple_request(1, 24, 0, 125))
    /\ device_event.sent # <<>>
    /\ from_bytes(device_event.sent[1])[1].function_code = READ_MULTIPLE_RESP

\* ---- C23 ----

\* C23: a read-multiple request addressed to the device, with a count in
\* 1..255 and all its registers inside the map, is answered with the
\* success response 0x43 carrying exactly count values (error simulation
\* not armed).
C23_ReadMultipleAnswered ==
    [][(/\ DeviceProcesses
        /\ ~DeviceArmed
        /\ DeviceRequestHandled.device_address = device_own_address
        /\ DeviceRequestHandled.function_code = READ_MULTIPLE
        /\ DeviceRequestCount \in 1..255
        /\ ~DeviceRangeOutside)
       => /\ Len(device_event'.sent) = 1
          /\ from_bytes(device_event'.sent[1]) # None
          /\ LET response == from_bytes(device_event'.sent[1])[1]
             IN  /\ response.function_code = READ_MULTIPLE_RESP
                 /\ Len(response.data) = 3 + 2 * DeviceRequestCount]_vars

\* ---- C24 ----

\* C24: a read-multiple or write-multiple request with count 0 is never
\* answered with a success response and never changes the register map.
C24_CountZeroRejected ==
    [][(/\ DeviceProcesses
        /\ DeviceRequestHandled.function_code \in {READ_MULTIPLE, WRITE_MULTIPLE}
        /\ DeviceRequestCount = 0)
       => /\ device_register_map' = device_register_map
          /\ \A i \in 1..Len(device_event'.sent) :
                LET response == from_bytes(device_event'.sent[i])
                IN  response # None
                    => response[1].function_code
                           \notin {READ_MULTIPLE_RESP, WRITE_MULTIPLE_RESP}]_vars

\* ---- C25 ----

\* C25: every send_request of the host moves message_id to the previous
\* one plus 1 modulo 256, every send_request of the master moves
\* transaction_id to the next of 1..65535 with 1 after 65535, and always,
\* also after edits of the message id field, message_id is in 0..255 and
\* transaction_id in 1..65535.
C25_IdsWrap ==
    /\ [](host_message_id \in 0..255 /\ master_transaction_id \in 1..65535)
    /\ [][host_requests' # host_requests
          => /\ host_event'.msg_id = host_message_id
             /\ host_message_id' = (host_message_id + 1) % 256]_vars
    /\ [][master_requests' # master_requests
          => /\ master_event'.tid = master_transaction_id
             /\ master_transaction_id' =
                    IF master_transaction_id = 65535 THEN 1
                    ELSE master_transaction_id + 1]_vars

\* C25 witness: the master sent a request with transaction id 65535 and is
\* at 1, and the host sent one with message id 255, typed as ff, and is at 0.
C25_Witness ==
    /\ master_event.kind = "send_request"
    /\ master_event.tid = 65535
    /\ master_transaction_id = 1
    /\ host_event.kind = "send_request"
    /\ host_event.msg_id = 255
    /\ host_message_id = 0

\* An edit that is not a hexadecimal byte left the message id as it was.
C25_EditReverted ==
    /\ host_event.kind = "on_message_id_change"
    /\ host_event.value = <<"1", "0", "0">>
    /\ host_message_id = 128

\* ---- C26 ----

\* The packets handle_response of the host got in this step.
HostNewlyHandled ==
    SubSeq(host_handled', Len(host_handled) + 1, Len(host_handled'))

\* C26: a decoded response whose id is not in the pending map is reported
\* as unexpected and leaves the pending map and the counters as they were:
\* in the host, where the matched and timed-out requests are what is
\* counted, and in the master with its request, response, timeout and error
\* counters.
C26_UnexpectedResponseIgnored ==
    /\ [][(/\ HostNewlyHandled # <<>>
           /\ \A i \in 1..Len(HostNewlyHandled) :
                 HostNewlyHandled[i].message_id
                     \notin DOMAIN host_pending_requests)
          => /\ host_pending_requests' = host_pending_requests
             /\ host_matched' = host_matched
             /\ host_timed_out' = host_timed_out
             /\ host_timers' = host_timers
             /\ host_event'.removed = FALSE]_vars
    /\ [][(/\ master_after_queue # <<>>
           /\ master_after_queue' = Tail(master_after_queue)
           /\ Head(master_after_queue).transaction_id
                  \notin DOMAIN master_pending_requests)
          => /\ master_pending_requests' = master_pending_requests
             /\ masterCounts' = masterCounts
             /\ master_status' = master_status
             /\ master_timers' = master_timers
             /\ master_event'.kind = "process_response"
             /\ master_event'.removed = FALSE]_vars

\* C26 witness: the master had sent request 1, its timeout had fired, and
\* the late response with transaction id 1 was then processed.
C26_Witness ==
    /\ session_tab = "modbus_master"
    /\ master_event.kind = "process_response"
    /\ master_event.tid = 1
    /\ ~master_event.removed
    /\ master_request_count = 1
    /\ master_timeout_count = 1
    /\ master_response_count = 0

\* The host too handled a late response: to request 1, which had timed out.
C26_HostReached ==
    /\ session_tab = "host"
    /\ host_event.kind = "handle_raw_data"
    /\ ~host_event.removed
    /\ Len(host_handled) = 1
    /\ host_handled[1].message_id = 0
    /\ host_timed_out = {1}
    /\ host_pending_requests = <<>>

\* ---- C27 ----

\* The client_worker threads inside their loop: about to test it, or in
\* recv, from where a request goes to process_modbus_request.
ClientWorkersServing ==
    {c \in 1..MaxClients : srv_client_workers[c].pc \in {"loop", "recv"}}

\* C27: at most one client_worker is reading requests and working on the
\* register map and the counters at any time.
C27_OneClientServed == Cardinality(ClientWorkersServing) <= 1

\* ---- C28 ----

\* The server was started once and not stopped since.
ServerNeverStopped ==
    /\ srv_is_running
    /\ \A w \in 2..MaxStarts : srv_server_workers[w].pc = "unborn"

\* C28: when a client connection ends, its worker's "finally" leaves the
\* register map and the server_worker threads alone and clears
\* client_socket and is_connected exactly when client_socket is its own
\* socket; and no worker leaves its loop at the loop test while its own
\* connection is open and the server has been running all along.
C28_OnlyThatWorkerStops ==
    [][\A c \in 1..MaxClients :
          /\ (srv_client_workers[c].pc = "finally"
              /\ srv_client_workers'[c].pc = "done")
             => /\ slave_register_map' = slave_register_map
                /\ srv_server_workers' = srv_server_workers
                /\ srv_is_running' = srv_is_running
                /\ IF srv_client_socket = c
                   THEN srv_client_socket' = 0 /\ ~srv_is_connected'
                   ELSE /\ srv_client_socket' = srv_client_socket
                        /\ srv_is_connected' = srv_is_connected
                /\ \A d \in 1..MaxClients \ {c} :
                      srv_client_workers'[d] = srv_client_workers[d]
          /\ (srv_client_workers[c].pc = "loop"
              /\ srv_client_workers'[c].pc = "finally")
             => (~ServerNeverStopped \/ srv_connections[c] # "open")]_vars

\* ---- C29 ----

\* C29: once stop_server has cleared is_running, every server_worker and
\* client_worker thread then alive terminates in the end; and a
\* client_worker processes a request only from recv, which it enters
\* having read both flags set.
C29_WorkersTerminate ==
    /\ \A w \in 1..MaxStarts :
          (~srv_is_running /\ srv_server_workers[w].pc \in {"loop", "accept"})
              ~> (srv_server_workers[w].pc = "done")
    /\ \A c \in 1..MaxClients :
          (~srv_is_running
           /\ srv_client_workers[c].pc \in {"loop", "recv", "finally"})
              ~> (srv_client_workers[c].pc = "done")
    /\ [][\A c \in 1..MaxClients :
             (srv_requests' # srv_requests
              /\ srv_client_workers'[c] # srv_client_workers[c])
                 => srv_client_workers[c].pc = "recv"]_vars

\* Both client_worker threads are in their loops, each having processed a
\* request of its own client.
C27_BothProcessed ==
    /\ ClientWorkersServing = {1, 2}
    /\ srv_client_workers[1].bytes_received
    /\ srv_client_workers[2].bytes_received
    /\ slave_request_count = 2

\* ---- C30 ----

\* C30: when disconnect_serial returns while the thread in read_thread is
\* running, that thread has terminated and read_thread is None.
C30_DisconnectJoinsReadThread ==
    [][(/\ gui_event'.kind = "disconnect_serial"
        /\ gui_is_connected /\ ~gui_is_connected'
        /\ gui_read_thread # 0
        /\ gui_threads[gui_read_thread] \in {"loop", "read"})
       => /\ gui_threads'[gui_read_thread] = "done"
          /\ gui_read_thread' = 0]_vars

(***************************************************************************)
(* C31: the length field of the frames ModbusTCPBuilder builds             *)
(***************************************************************************)

BuilderKinds ==
    {"read_request", "read_response", "write_request", "write_response",
     "exception"}

MxBuiltByBuilder == mx_stage # "call" /\ mx_stage # "raised"
                      /\ mx_call.kind \in BuilderKinds

\* C31 as stated: every frame built by ModbusTCPBuilder has a length field
\* equal to 1 (the function code) plus the number of PDU data bytes.
C31_LengthAsClaimed ==
    MxBuiltByBuilder => mx_frame[1].length = 1 + Len(mx_frame[1].data)

\* C31 amended: every frame built by ModbusTCPBuilder has a length field
\* equal to 2 (the unit id and the function code) plus the number of PDU
\* data bytes; once encoded, bytes 4..5 carry that value big-endian and the
\* frame is 6 + length bytes long.
C31_LengthField ==
    MxBuiltByBuilder =>
        /\ mx_frame[1].length = 2 + Len(mx_frame[1].data)
        /\ mx_stage \in {"encoded", "decoded", "parsed"} =>
              /\ Len(mx_bytes) = 6 + mx_frame[1].length
              /\ unpack_H(PySlice(mx_bytes, 4, 6)) = mx_frame[1].length

\* C31 witness: a read response of 125 registers was built and encoded, its
\* length field is 253 for 251 data bytes.
C31_Witness ==
    /\ mx_stage = "encoded"
    /\ mx_call.kind = "read_response"
    /\ Len(mx_call.values) = ReadLimit
    /\ Len(mx_frame[1].data) = 251
    /\ mx_frame[1].length = 253
    /\ Len(mx_bytes) = 259

(***************************************************************************)
(* C32: a timeout removes the request it was armed for, and no other       *)
(***************************************************************************)

\* A step in which a timeout of the host tab removed a pending request.
HostTimeoutRemoves ==
    /\ host_event'.kind = "check_timeout"
    /\ host_timers' # host_timers
    /\ host_pending_requests' # host_pending_requests

\* C32: in both masters a timeout armed for request A never removes or
\* reports a different request B: the request a firing timeout of the host
\* tab pops from pending_requests is the one stored under the id the timeout
\* was armed for and is the request that armed it, and the same holds for
\* the request a timeout of the Modbus master pops.
C32_TimeoutRemovesOwnRequest ==
    /\ [][HostTimeoutRemoves =>
             /\ host_event'.msg_id = host_event'.armed_for
             /\ host_pending_requests[host_event'.msg_id] = host_event'.req
             /\ host_timed_out' = host_timed_out \cup {host_event'.req}]_vars
    /\ []((master_event.kind = "check_timeout" /\ master_event.removed)
             => /\ master_event.tid = master_event.armed_for
                /\ master_event.removed_req = master_event.req)

(***************************************************************************)
(* C33: a valid packet fed after noise or corrupt bytes                    *)
(***************************************************************************)

\* The packet of item n of the stream is among the packets handed over.
RsHanded(handed, n) ==
    \E i \in 1..Len(handed) :
        /\ handed[i].device_address = rs_items[n].packet.device_address
        /\ handed[i].message_id = rs_items[n].packet.message_id
        /\ handed[i].function_code = rs_items[n].packet.function_code
        /\ handed[i].data = rs_items[n].packet.data

\* C33: the reassembly loops recover from corruption: whatever noise or
\* corrupt bytes were received before it (bytes holding 0x7E included), a
\* complete valid packet is decoded and handed to handle_request (device)
\* and to handle_response (host) once all its bytes have been fed.
C33_ValidPacketAfterNoiseHanded ==
    \A n \in 1..Len(rs_items) :
        (rs_items[n].valid /\ RsEnd(n) <= rs_fed)
            => /\ RsHanded(device_handled, n)
               /\ RsHanded(host_handled, n)

(***************************************************************************)
(* C34: what send_protocol_request returns                                 *)
(***************************************************************************)

\* C34: send_protocol_request, called while the host is connected, returns
\* (True, data) with the decoded register data when the device's response
\* to its request arrived within response_timeout, and otherwise returns
\* (False, "Request timeout"); in both cases no pending entry for its
\* message id is left when it returns.
C34_ProtocolRequestResult ==
    host_event.kind = "send_protocol_request returns" =>
        /\ host_call.arrived =>
               host_call.result = [success |-> TRUE, data |-> [value |-> 4660]]
        /\ ~host_call.arrived =>
               host_call.result =
                   [success |-> FALSE, data |-> [message |-> "Request timeout"]]
        /\ host_call.message_id \notin DOMAIN host_pending_requests

\* The call returned the register value: the response was fed to
\* handle_raw_data by the read thread of the main serial port.
C34_SuccessReached ==
    /\ host_event.kind = "send_protocol_request returns"
    /\ host_call.result = [success |-> TRUE, data |-> [value |-> 4660]]

(***************************************************************************)
(* C35: the receive worker of an earlier connection                        *)
(***************************************************************************)

\* The workers inside recv on the socket that client_socket names.
WorkersOnClientSocket ==
    {w \in 1..MaxConnects :
         /\ conn_workers[w].pc = "recv"
         /\ conn_client_socket # 0
         /\ conn_workers[w].socket = conn_client_socket}

\* A worker started for an earlier connection leaves its loop while a later
\* connection is up.
EarlierWorkerExits(w) ==
    /\ conn_workers[w].pc # "done"
    /\ conn_workers'[w].pc = "done"
    /\ conn_is_connected
    /\ conn_client_socket > w

\* C35: a receive worker started for an earlier connection never affects a
\* later one: after disconnect_from_server and connect_to_server at most
\* one receive worker reads from the new socket, and the exit of the old
\* worker never schedules disconnect_from_server for the new connection.
C35_OldWorkerLeavesNewConnection ==
    /\ [](Cardinality(WorkersOnClientSocket) <= 1)
    /\ [][\A w \in 1..MaxConnects :
             EarlierWorkerExits(w) => conn_after_queue' = conn_after_queue]_vars

(***************************************************************************)
(* C36: a success response of the device reflects the register map         *)
(***************************************************************************)

\* The 16-bit words a write request carries after its address: one for
\* write-single, and for write-multiple as many as its count byte names and
\* its data holds in full.
CarriedValues(request) ==
    LET d == request.data
    IN  IF request.function_code = WRITE_SINGLE
        THEN <<BigEndianAt(d, 2)>>
        ELSE LET n == Min(d[3], (Len(d) - 3) \div 2)
             IN  [i \in 1..n |-> BigEndianAt(d, 3 + 2 * (i - 1))]

\* The step in which the device sent a success response: byte 4 of what it
\* wrote is the function code, and the data follow it.
DeviceSentSuccess ==
    /\ DeviceRequestStep
    /\ device_event'.sent # <<>>
    /\ ~HasErrorBit(device_event'.sent[1][5])

\* C36: whenever the device sends a success response it reflects the
\* register map. After a write-single or write-multiple response for
\* (addr, n), registers addr..addr+n-1 hold the n values the request
\* carried, every other register and the size are as before, and n is the
\* number of values written; a read response carries the values that were
\* stored at the requested addresses, and the map is as before.
C36_SuccessReflectsMap ==
    [][DeviceSentSuccess =>
         LET request == DeviceRequestHandled
             sent == device_event'.sent[1]
             addr == BigEndianAt(request.data, 0)
             before == device_register_map
             after == device_register_map'
         IN  /\ BigEndianAt(sent, 5) = addr
             /\ after.size = before.size
             /\ Len(after.registers) = before.size
             /\ request.function_code \in {WRITE_SINGLE, WRITE_MULTIPLE} =>
                  LET carried == CarriedValues(request)
                      n == Len(carried)
                  IN  /\ addr + n <= before.size
                      /\ \A a \in 0..(before.size - 1) :
                             after.registers[a + 1] =
                                 IF addr <= a /\ a < addr + n
                                 THEN carried[a - addr + 1]
                                 ELSE before.registers[a + 1]
                      /\ IF request.function_code = WRITE_SINGLE
                         THEN /\ sent[5] = WRITE_SINGLE_RESP
                              /\ BigEndianAt(sent, 7) = carried[1]
                         ELSE /\ sent[5] = WRITE_MULTIPLE_RESP
                              /\ sent[8] = n
             /\ request.function_code = READ_SINGLE =>
                  /\ after = before
                  /\ sent[5] = READ_SINGLE_RESP
                  /\ addr < before.size
                  /\ BigEndianAt(sent, 7) = before.registers[addr + 1]
             /\ request.function_code = READ_MULTIPLE =>
                  LET count == request.data[3]
                  IN  /\ after = before
                      /\ sent[5] = READ_MULTIPLE_RESP
                      /\ addr + count <= before.size
                      /\ sent[8] = count
                      /\ Len(sent) = 10 + 2 * count
                      /\ \A i \in 1..count :
                             BigEndianAt(sent, 8 + 2 * (i - 1))
                                 = before.registers[addr + i]
             /\ request.function_code
                    \in {READ_SINGLE, WRITE_SINGLE, READ_MULTIPLE,
                         WRITE_MULTIPLE}]_vars

\* C36 witness: a write-multiple request with count byte 3 and two values
\* was answered with a success response for two registers, which hold the
\* two values, after register 2 had held another value.
C36_Witness ==
    /\ device_event.kind = "handle_raw_data"
    /\ device_event.packets # <<>>
    /\ to_bytes(device_event.packets[1])
           = to_bytes(Packet(1, 29, WRITE_MULTIPLE, <<0, 1, 3, 170, 170, 0, 1>>))
    /\ device_event.sent
           = <<to_bytes(write_multiple_response(1, 29, 1, 2))>>
    /\ device_register_map.size = 256
    /\ device_register_map.registers[2] = 43690
    /\ device_register_map.registers[3] = 1
    /\ device_register_map.registers[17] = 4660

\* A read response carrying a stored value other than zero was sent too.
C36_ReadReached ==
    /\ device_event.kind = "handle_raw_data"
    /\ device_event.sent
           = <<to_bytes(read_single_response(1, 28, 1, 43690))>>

(***************************************************************************)
(* C37: what the reassembly loops leave in the buffer                      *)
(***************************************************************************)

\* A buffer between calls: empty, or the beginning of a frame.
IncompleteFrame(buf) ==
    \/ buf = <<>>
    \/ /\ buf[1] = START_FLAG
       /\ Len(buf) < 6 \/ Len(buf) < 6 + buf[4]
       /\ Len(buf) <= 260

\* C37: each call of the reassembly loop of the device tab and of the host
\* tab returns, having handed over a finite number of packets (no more
\* than one for every 7 bytes fed), and leaves a buffer that is empty or
\* starts with 0x7E and holds an incomplete frame, fewer than 6 bytes or
\* fewer than 6 + its length byte, hence at most 260 bytes.
C37_BufferHoldsIncompleteFrame ==
    /\ IncompleteFrame(device_request_buffer)
    /\ IncompleteFrame(host_response_buffer)
    /\ Len(device_handled) * 7 <= rs_fed
    /\ Len(host_handled) * 7 <= rs_fed

\* C37 witness: both buffers hold 260 bytes of a frame whose length byte
\* is 255.
C37_Witness ==
    /\ Len(device_request_buffer) = 260
    /\ device_request_buffer[4] = 255
    /\ Len(host_response_buffer) = 260
    /\ rs_fed = 260

\* One byte later the 261 bytes were taken as a frame and dropped, and the
\* bytes behind them, holding no 0x7E, were cleared.
C37_FrameDropped ==
    /\ rs_fed > 260
    /\ Len(rs_items) = 2
    /\ rs_items[1].bytes = LongFrameStart
    /\ rs_items[2].bytes = LongFrameStart
    /\ device_request_buffer = <<>>
    /\ device_handled = <<>>

(***************************************************************************)
(* C38: the counters of the Modbus slave                                   *)
(***************************************************************************)

\* C38: with one client worker and no statistics reset, after each request
\* that the slave has processed request_count = response_count +
\* error_count: every request that decodes adds one to request_count and to
\* exactly one of response_count and error_count.
C38_CountersBalance ==
    slave_call = None
        => slave_request_count = slave_response_count + slave_error_count

\* The request that is counted in neither: the simulation was armed when
\* the worker tested it and error_type was "none" when
\* generate_error_response read it; nothing was sent.
C38_RequestCountedOnce ==
    /\ slave_event.kind = "generate_error_response"
    /\ slave_event.sent = None
    /\ slave_request_count = 1
    /\ slave_response_count = 0
    /\ slave_error_count = 0

(***************************************************************************)
(* C39: the Modbus master after a disconnect                               *)
(***************************************************************************)

\* disconnect_from_server ran, from the button or after a failed send.
MasterDisconnected ==
    master_event'.kind \in {"disconnect_from_server", "send_request_failed"}

\* Requests that were pending when the master disconnected.
MasterCleared == {n \in DOMAIN master_status : master_status[n] = "cleared"}

\* A step that counts a response or a timeout.
MasterCounts ==
    \/ master_response_count' # master_response_count
    \/ master_timeout_count' # master_timeout_count

\* The request a counting step removes from the pending map.
MasterCounted ==
    {n \in DOMAIN master_status :
        /\ master_status[n] = "pending"
        /\ master_status'[n] \in {"matched", "timed_out"}}

\* The timeout of a request that was pending at a disconnect fires.
ClearedTimeoutFires ==
    /\ master_event'.kind = "check_timeout"
    /\ master_timers' # master_timers
    /\ master_event'.req \in MasterCleared

\* C39: after the master disconnects the pending map is empty; the timeout
\* of a request sent before the disconnect and a response to it change
\* nothing afterwards, also after a reconnect: a request that was pending
\* at the disconnect is never counted as answered or timed out, and every
\* step that counts a response or a timeout removes one request that is
\* pending on the present connection; in every state response_count +
\* timeout_count is at most request_count.
C39_DisconnectForgetsRequests ==
    /\ [](master_response_count + master_timeout_count
              <= master_request_count)
    /\ [][/\ MasterDisconnected => master_pending_requests' = <<>>
          /\ \A n \in MasterCleared : master_status'[n] = "cleared"
          /\ MasterCounts =>
                 /\ Cardinality(MasterCounted) = 1
                 /\ master_response_count' + master_timeout_count'
                        = master_response_count + master_timeout_count + 1
          /\ ClearedTimeoutFires =>
                 /\ UNCHANGED masterCounts
                 /\ UNCHANGED master_pending_requests]_vars

\* C39 witness: the master has reconnected and sent a second request; the
\* timeout of the first one, pending at the disconnect, fired and removed
\* and counted nothing.
C39_Witness ==
    /\ master_event.kind = "check_timeout"
    /\ master_status[master_event.req] = "cleared"
    /\ ~master_event.removed
    /\ master_is_connected
    /\ master_pending_requests # <<>>
    /\ master_timeout_count = 0

\* The same for a response: the answer to the first request was received
\* before the disconnect and its process_response ran after the reconnect.
C39_ResponseReached ==
    /\ master_event.kind = "process_response"
    /\ ~master_event.removed
    /\ master_status[1] = "cleared"
    /\ master_event.tid = 1
    /\ master_is_connected
    /\ master_pending_requests # <<>>
    /\ master_response_count = 0

====
